---- MODULE Spec2Model ----
(***************************************************************************)
(* Location-based commodity price lookup of Farmora                        *)
(* (backend/ai_server/tools/commodity_price_tool.py).                       *)
(*                                                                         *)
(* The model follows one call of get_all_commodity_prices: for every       *)
(* requested commodity get_commodity_price resolves the location, walks    *)
(* the in-district markets and then the alternate markets of the state,    *)
(* and every candidate is one scrape_commodity call that owns a browser    *)
(* session.  The remote site and the browser are the environment: each     *)
(* scrape step succeeds or fails nondeterministically, and a parsed table  *)
(* is any list of RecordLists.                                             *)
(*                                                                         *)
(* Modelling decisions:                                                    *)
(*  - debug is False (the pipeline's call, scripts/processing.py:155), so  *)
(*    debug_print and take_debug_screenshot do nothing;                    *)
(*  - haversine_distance takes its ImportError branch (the haversine       *)
(*    formula), in fixed point over whole degrees;                         *)
(*  - Python's None is the string NoneVal, an absent dict key is Absent,    *)
(*    NoKey in a result, an empty dict is EmptyDict; a coordinate that is  *)
(*    None or absent is NoCoordinate;                                      *)
(*  - only exceptions derived from Exception are raised by the environment.*)
(***************************************************************************)
EXTENDS Integers, Sequences, FiniteSets, TLC

VARIABLES
    districtsFile,      \* content of DISTRICTS_FILE
    marketsFile,        \* content of MARKETS_FILE
    lat, lon,           \* the query point
    requested,          \* the commodities argument of get_all_commodity_prices
    commodities,        \* get_all_commodity_prices: commodities (rebound when empty)
    apc,                \* position in get_all_commodity_prices
    ci,                 \* index of the commodity being processed
    allResult,          \* get_all_commodity_prices: result (commodity -> data)
    pc,                 \* position in get_commodity_price
    result,             \* get_commodity_price: result
    state,              \* get_commodity_price: state
    district,           \* get_commodity_price: district
    markets,            \* get_commodity_price: markets
    market_data,        \* get_commodity_price: market_data
    successful_market,  \* get_commodity_price: successful_market
    mi,                 \* position of the loop over markets
    ai,                 \* position of the loop over alternate_markets
    spc,                \* position in scrape_commodity
    sargs,              \* arguments of the running scrape_commodity call
    retry,              \* scrape_commodity: retry
    pending,            \* exception in flight in scrape_commodity ("" when none)
    sret,               \* value returned by scrape_commodity
    created,            \* the running or last scrape_commodity call created its session
    driverOpen,         \* the session of the running scrape_commodity is open
    openSessions,       \* browser sessions created and not yet released
    quitCount,          \* driver.quit() calls on the session of the running or last scrape
    form,               \* what the running scrape_commodity call has entered on the remote form
    clicks,             \* history: the submit strategies tried by the running Go-button loop
    calls,              \* history: scrape_commodity invocations of the running get_commodity_price
    lastOutcome,        \* history: how the last scrape_commodity call ended
    lastRaised,         \* history: the last invocation that raised (0 when none)
    firstData,          \* history: the first invocation that returned records, and the records
    price_data,         \* get_latest_prices: data
    commodity_variety,  \* get_latest_prices: commodity_variety
    latest,             \* what a direct get_latest_prices call returned or raised
    geocoded_markets,   \* content of GEOCODED_MARKETS_FILE (tools/geo_utils.py)
    market_database,    \* what load_market_database() of tools/geo_utils.py yields
    reverse_geocoded,   \* the (state, district) the reverse geocoding service answers
    found_markets,      \* what find_markets_by_coordinates returned or raised
    tid,                \* the get_commodity_price call that is running (1 or 2)
    other,              \* the locals of the concurrent call that is not running
    site,               \* the option lists the remote form offers
    today,              \* datetime.now(), as a calendar date
    typed,              \* the date range a scrape_commodity call without dates types
    geopy,              \* whether geopy can be imported in this build
    coords,             \* the two points of a direct haversine_distance call
    distance            \* what that call returned, in metres

inputVars == <<districtsFile, marketsFile, lat, lon, requested>>
outerVars == <<commodities, apc, ci, allResult>>
engineVars == <<pc, result, state, district, markets, market_data, successful_market, mi, ai>>
scrapeVars == <<spc, sargs, retry, pending, sret, created, driverOpen, openSessions, quitCount,
                form, clicks>>
historyVars == <<calls, lastOutcome, lastRaised, firstData>>
\* a direct call of get_latest_prices
selectVars == <<price_data, commodity_variety, latest>>
\* a call of find_markets_by_coordinates
geoVars == <<geocoded_markets, market_database, reverse_geocoded, found_markets>>
\* two get_commodity_price calls at once
pairVars == <<tid, other>>
\* the remote site and the clock
\* a direct call of haversine_distance
distanceVars == <<geopy, coords, distance>>
envVars == <<site, today, typed, distanceVars>>
sideVars == <<selectVars, geoVars, pairVars, envVars>>

vars == <<inputVars, outerVars, engineVars, scrapeVars, historyVars, sideVars>>

NoneVal == "None"
Absent == "<absent>"
EmptyDict == <<>>
NoKey == [absent |-> TRUE]

-----------------------------------------------------------------------------
(* Bounds of the model *)

\* longest commodities list passed to get_all_commodity_prices
MaxCommodities == 1

-----------------------------------------------------------------------------
(* haversine_distance, in fixed point over whole degrees *)

Abs(x) == IF x < 0 THEN -x ELSE x

\* math.sin(math.radians(d)/2)**2, scaled by 10^7
SinSqHalf(d) ==
    CASE d = 0 -> 0
      [] d = 1 -> 762
      [] d = 2 -> 3046
      [] d = 3 -> 6852
      [] d = 4 -> 12180
      [] OTHER -> 19027

\* math.cos(math.radians(l)), scaled by 10^3
CosDeg(l) ==
    CASE l = 28 -> 883
      [] l = 29 -> 875
      [] l = 30 -> 866
      [] l = 31 -> 857
      [] l = 32 -> 848
      [] OTHER -> 1000

RECURSIVE IsqrtBetween(_, _, _)
\* the largest r in lo..hi with r*r <= x, by bisection
IsqrtBetween(x, lo, hi) ==
    IF lo = hi THEN lo
    ELSE LET mid == (lo + hi + 1) \div 2 IN
         IF mid * mid <= x THEN IsqrtBetween(x, mid, hi) ELSE IsqrtBetween(x, lo, mid - 1)

\* math.sqrt, rounded down (x < 2^20)
Isqrt(x) == IsqrtBetween(x, 0, 1024)

\* Earth's radius in kilometers (radius = 6371.0)
EarthRadiusKm == 6371

\* distance in km; c = 2*atan2(sqrt(a), sqrt(1-a)) = 2*asin(sqrt(a)), and
\* asin(s) = s to the precision kept here (a < 0.002 on the grid)
haversine_distance(coord1, coord2) ==
    LET dlat == Abs(coord2[1] - coord1[1])
        dlon == Abs(coord2[2] - coord1[2])
        a == SinSqHalf(dlat)
             + (((CosDeg(coord1[1]) * CosDeg(coord2[1])) \div 1000) * SinSqHalf(dlon)) \div 1000
        sqrtA == Isqrt(a * 10)          \* sqrt(a), scaled by 10^4
    IN (2 * EarthRadiusKm * sqrtA) \div 10000

-----------------------------------------------------------------------------
(* haversine_distance called directly, with geopy importable or not *)

\* the whole-degree points of the calls
GridPoints == {<<la, lo>> : la \in 28..32, lo \in 75..77}

\* math.sin(math.radians(d)/2)**2, scaled by 10^8
SinSqHalfFine(d) ==
    CASE d = 0 -> 0
      [] d = 1 -> 7615
      [] d = 2 -> 30459
      [] d = 3 -> 68523
      [] d = 4 -> 121797

\* math.cos(math.radians(l)), scaled by 10^4
CosDegFine(l) ==
    CASE l = 28 -> 8829
      [] l = 29 -> 8746
      [] l = 30 -> 8660
      [] l = 31 -> 8572
      [] l = 32 -> 8480

\* the ImportError branch, in metres and to about 30 m on the grid:
\* c = 2*atan2(sqrt(a), sqrt(1-a)) = 2*asin(sqrt(a)), and asin(s) = s + s^3/6
\* to the precision kept here; every intermediate value is below 2^31
HaversineFormula(coord1, coord2) ==
    LET dlat == Abs(coord2[1] - coord1[1])
        dlon == Abs(coord2[2] - coord1[2])
        a == SinSqHalfFine(dlat)             \* scaled by 10^8
             + (((CosDegFine(coord1[1]) * CosDegFine(coord2[1])) \div 10000)
                    * SinSqHalfFine(dlon)) \div 10000
        sqrtA == IsqrtBetween(a * 10000, 0, 46340)   \* sqrt(a), scaled by 10^6
        c == 2 * sqrtA + (2 * sqrtA * (a \div 100)) \div 6000000
    IN (EarthRadiusKm * c) \div 1000

\* geodesic(coord1, coord2).kilometers of geopy, the distance on the WGS-84
\* ellipsoid, in metres: tabulated by longitude difference, first latitude
\* and second latitude of the grid
geodesic(coord1, coord2) ==
    LET GeodesicTable ==
        <<
           <<<<0, 110828, 221672, 332533, 443411>>,
             <<110828, 0, 110844, 221705, 332583>>,
             <<221672, 110844, 0, 110861, 221739>>,
             <<332533, 221705, 110861, 0, 110878>>,
             <<443411, 332583, 221739, 110878, 0>>>>,
           <<<<98362, 147876, 242138, 346376, 453779>>,
             <<147876, 97439, 147270, 241787, 346155>>,
             <<242138, 147270, 96486, 146647, 241428>>,
             <<346376, 241787, 146647, 95504, 146010>>,
             <<453779, 346155, 241428, 146010, 94493>>>>,
           <<<<196722, 224991, 295140, 384929, 483550>>,
             <<224991, 194875, 223368, 293910, 384001>>,
             <<295140, 223368, 192970, 221699, 292650>>,
             <<384929, 293910, 221699, 191006, 219984>>,
             <<483550, 384001, 292650, 219984, 188984>>>>
        >>
    IN GeodesicTable[Abs(coord2[2] - coord1[2]) + 1][coord1[1] - 27][coord2[1] - 27]

\* haversine_distance has not been called directly
NoDistanceCall ==
    /\ geopy = FALSE
    /\ coords = <<<<0, 0>>, <<0, 0>>>>
    /\ distance = [done |-> FALSE, metres |-> 0]

\* distance = haversine_distance(coords[1], coords[2]): geopy's geodesic when
\* the import succeeds, the formula on ImportError
HaversineDistanceCall ==
    /\ ~distance.done
    /\ distance' = [done |-> TRUE,
                    metres |-> IF geopy THEN geodesic(coords[1], coords[2])
                               ELSE HaversineFormula(coords[1], coords[2])]
    /\ UNCHANGED <<geopy, coords, site, today, typed, selectVars, geoVars, pairVars>>
    /\ UNCHANGED <<inputVars, outerVars, engineVars, scrapeVars, historyVars>>

-----------------------------------------------------------------------------
(* Reference datasets *)

\* A file is missing, is not valid JSON ("invalid": also the empty file), is a
\* JSON object with at least one key instead of an array ("object"), or is an
\* array of rows ("list").
FileKinds == {"missing", "invalid", "object", "list"}

DRow(s, d, la, lo) == [state |-> s, district |-> d, latitude |-> la, longitude |-> lo]
MRow(s, d, m) == [state |-> s, district |-> d, market |-> m]

File(k, r) == [kind |-> k, rows |-> r]

\* rows of scripts/create_districts_database.py, coordinates rounded to degrees
DistrictRows ==
    << DRow("Punjab", "Ludhiana", 31, 76),
       DRow("Punjab", "Patiala", 30, 76),
       DRow("Haryana", "Karnal", 30, 77),
       DRow("Himachal Pradesh", "Kangra", 32, 76) >>

\* entry.get("latitude") / entry.get("longitude") of a row without that key, or
\* with null under it
NoCoordinate == -999

\* a dataset with a state that get_alternate_markets does not know, and a row
\* without coordinates
DistrictRowsOther ==
    << DRow("Rajasthan", "Jaipur", NoCoordinate, NoCoordinate),
       DRow("Rajasthan", "Ganganagar", 30, 75),
       DRow("Haryana", "Panipat", 29, 77) >>

\* a dataset whose only row has a coordinate that is the number 0
DistrictRowsZero == << DRow("Haryana", "Karnal", 30, 0) >>

\* a dataset whose only row has no "district" key
DistrictRowsNoDistrict == << DRow("Rajasthan", Absent, 29, 77) >>

DistrictFiles ==
    { File("missing", <<>>), File("invalid", <<>>), File("object", <<>>),
      File("list", <<>>), File("list", DistrictRows), File("list", DistrictRowsOther),
      File("list", DistrictRowsZero), File("list", DistrictRowsNoDistrict) }

\* rows of scripts/create_markets_database.py
MarketRows ==
    << MRow("Punjab", "Ludhiana", "Ludhiana"),
       MRow("Punjab", "Ludhiana", "Khanna"),
       MRow("Punjab", "Patiala", "Patiala"),
       MRow("Himachal Pradesh", "Kangra", "Dharamshala"),
       MRow("Himachal Pradesh", "Kangra", "Palampur") >>

\* a dataset that lists one market of a district twice
MarketRowsRepeated ==
    << MRow("Punjab", "Patiala", "Patiala"),
       MRow("Punjab", "Patiala", "Patiala") >>

MarketFiles ==
    { File("missing", <<>>), File("invalid", <<>>), File("object", <<>>),
      File("list", <<>>), File("list", MarketRows), File("list", MarketRowsRepeated) }

QueryPoints == { <<31, 76>>, <<30, 77>>, <<32, 76>>, <<30, 75>>, <<29, 77>> }

-----------------------------------------------------------------------------
(* Location resolver *)

\* Python truthiness of a coordinate: None and 0 (0.0) are falsy
Truthy(x) == x # NoCoordinate /\ x # 0

\* dict.get(key, default)
GetOr(v, default) == IF v = Absent THEN default ELSE v

RECURSIVE NearestFrom(_, _, _, _, _)
\* the loop of find_nearest_location: best is the index of nearest_district
\* (0 for None), bestDist is min_distance (-1 for float('inf'))
NearestFrom(rows, i, best, bestDist, point) ==
    IF i > Len(rows) THEN <<best, bestDist>>
    ELSE LET e == rows[i] IN
         IF ~(Truthy(e.latitude) /\ Truthy(e.longitude))
         THEN NearestFrom(rows, i + 1, best, bestDist, point)
         ELSE LET d == haversine_distance(point, <<e.latitude, e.longitude>>) IN
              IF bestDist = -1 \/ d < bestDist
              THEN NearestFrom(rows, i + 1, i, d, point)
              ELSE NearestFrom(rows, i + 1, best, bestDist, point)

DefaultLocation == [raised |-> "", state |-> "Punjab", district |-> "Ludhiana", distance |-> 0]

\* find_nearest_location(lat, lon); raised names the exception that leaves it
find_nearest_location(file, la, lo) ==
    CASE file.kind = "missing" -> DefaultLocation
      [] file.kind = "invalid" -> DefaultLocation
      [] file.kind = "object" ->
            \* iterating a dict yields its keys: str has no attribute 'get'
            [raised |-> "AttributeError", state |-> NoneVal, district |-> NoneVal, distance |-> 0]
      [] OTHER ->
            LET n == NearestFrom(file.rows, 1, 0, -1, <<la, lo>>) IN
            IF n[1] # 0
            THEN [raised |-> "", state |-> GetOr(file.rows[n[1]].state, "Punjab"),
                  district |-> GetOr(file.rows[n[1]].district, "Ludhiana"), distance |-> n[2]]
            ELSE DefaultLocation

RECURSIVE DistrictMarketsFrom(_, _, _, _)
DistrictMarketsFrom(rows, i, s, d) ==
    IF i > Len(rows) THEN <<>>
    ELSE IF rows[i].state = s /\ rows[i].district = d
         THEN <<rows[i].market>> \o DistrictMarketsFrom(rows, i + 1, s, d)
         ELSE DistrictMarketsFrom(rows, i + 1, s, d)

DefaultMarkets == <<"Ludhiana">>

\* get_markets_in_district(state, district)
get_markets_in_district(file, s, d) ==
    CASE file.kind = "missing" -> [raised |-> "", markets |-> DefaultMarkets]
      [] file.kind = "invalid" -> [raised |-> "", markets |-> DefaultMarkets]
      [] file.kind = "object" -> [raised |-> "AttributeError", markets |-> <<>>]
      [] OTHER ->
            LET district_markets == DistrictMarketsFrom(file.rows, 1, s, d) IN
            [raised |-> "",
             markets |-> IF district_markets # <<>> THEN district_markets ELSE DefaultMarkets]

Alt(d, m) == [district |-> d, market |-> m]

\* get_alternate_markets(state)
get_alternate_markets(s) ==
    CASE s = "Punjab" ->
            << Alt("Ludhiana", "Ludhiana"), Alt("Amritsar", "Amritsar"),
               Alt("Patiala", "Patiala"), Alt("Jalandhar", "Jalandhar"),
               Alt("Bathinda", "Bathinda") >>
      [] s = "Haryana" ->
            << Alt("Karnal", "Karnal"), Alt("Ambala", "Ambala"), Alt("Hisar", "Hisar"),
               Alt("Gurugram", "Gurugram"), Alt("Kurukshetra", "Kurukshetra") >>
      [] s = "Uttar Pradesh" ->
            << Alt("Lucknow", "Lucknow"), Alt("Kanpur", "Kanpur"),
               Alt("Varanasi", "Varanasi"), Alt("Agra", "Agra"), Alt("Meerut", "Meerut") >>
      [] s = "Himachal Pradesh" ->
            << Alt("Shimla", "Shimla"), Alt("Solan", "Solan"), Alt("Kangra", "Dharamshala"),
               Alt("Kullu", "Kullu"), Alt("Mandi", "Mandi") >>
      [] OTHER -> << Alt("Ludhiana", "Ludhiana") >>

-----------------------------------------------------------------------------
(* Scraped records and get_latest_prices *)

\* One parsed table row: the cell text under each cleaned header, Absent when
\* the row has no cell under that header.
Rec(v, pd, rd, mn, mx, md, mk) ==
    [Variety |-> v, Price_Date |-> pd, Reported_Date |-> rd,
     Min_Price |-> mn, Max_Price |-> mx, Modal_Price |-> md, Market_Name |-> mk]

\* datetime.strptime(s, '%d %b %Y') as yyyymmdd; -1 stands for ValueError
Strptime(s) ==
    CASE s = "10 Jan 2024" -> 20240110
      [] s = "05 Jan 2024" -> 20240105
      [] s = "01 Jan 2000" -> 20000101
      [] OTHER -> -1

\* float(s); raised is "ValueError" for text that is no number (also the blank cell)
ParseFloat(s) ==
    CASE s = "0" -> [raised |-> "", value |-> 0]
      [] s = "1800" -> [raised |-> "", value |-> 1800]
      [] s = "2100" -> [raised |-> "", value |-> 2100]
      [] s = "2400" -> [raised |-> "", value |-> 2400]
      [] OTHER -> [raised |-> "ValueError", value |-> 0]

\* the sort key: x.get('Price Date', x.get('Reported Date', '01 Jan 2000'))
DateText(x) == GetOr(x.Price_Date, GetOr(x.Reported_Date, "01 Jan 2000"))

SortKey(x) == Strptime(DateText(x))

RECURSIVE InsertDesc(_, _)
\* x goes after every element whose key is not smaller: equal keys keep input order
InsertDesc(sorted, x) ==
    IF sorted = <<>> THEN <<x>>
    ELSE IF SortKey(Head(sorted)) >= SortKey(x)
         THEN <<Head(sorted)>> \o InsertDesc(Tail(sorted), x)
         ELSE <<x>> \o sorted

RECURSIVE SortDescFrom(_, _, _)
SortDescFrom(data, i, acc) ==
    IF i > Len(data) THEN acc ELSE SortDescFrom(data, i + 1, InsertDesc(acc, data[i]))

\* sorted(filtered_data, key=..., reverse=True): stable, most recent first
SortedByDateDesc(data) == SortDescFrom(data, 1, <<>>)

FilterVariety(data, variety) == SelectSeq(data, LAMBDA item : item.Variety = variety)

\* filtered_data: the records of the variety when one is given (if commodity_variety)
FilteredData(rows, variety) ==
    IF variety # NoneVal /\ variety # "" THEN FilterVariety(rows, variety) ELSE rows

\* sorted_data[0]: sorted() evaluates the key of every record, so one date that
\* does not parse raises ValueError and the handler keeps the input order
LatestRecord(filtered_data) ==
    LET parseFails == \E i \in 1..Len(filtered_data) : SortKey(filtered_data[i]) = -1
        sorted_data == IF parseFails THEN filtered_data ELSE SortedByDateDesc(filtered_data)
    IN sorted_data[1]

\* the returned dict of the record rec; float() of a price cell may raise
FormattedResult(rec) ==
    LET mn == ParseFloat(GetOr(rec.Min_Price, "0"))
        mx == ParseFloat(GetOr(rec.Max_Price, "0"))
        md == ParseFloat(GetOr(rec.Modal_Price, "0"))
    IN
    IF mn.raised # "" \/ mx.raised # "" \/ md.raised # ""
    THEN [raised |-> "ValueError", value |-> EmptyDict]
    ELSE [raised |-> "",
          value |-> [variety |-> GetOr(rec.Variety, "Unknown"),
                     min_price |-> mn.value,
                     max_price |-> mx.value,
                     modal_price |-> md.value,
                     date |-> GetOr(rec.Price_Date, GetOr(rec.Reported_Date, "Unknown")),
                     market |-> GetOr(rec.Market_Name, "Unknown")]]

\* get_latest_prices(data, commodity_variety); commodity_variety is NoneVal when not given
get_latest_prices(rows, variety) ==
    IF rows = <<>> THEN [raised |-> "", value |-> EmptyDict]
    ELSE IF FilteredData(rows, variety) = <<>> THEN [raised |-> "", value |-> EmptyDict]
    ELSE FormattedResult(LatestRecord(FilteredData(rows, variety)))

\* tables a scrape can parse from the result page
RecordLists ==
    { <<>>,
      << Rec("Basmati", "10 Jan 2024", Absent, "1800", "2400", "2100", "Khanna") >>,
      << Rec("Basmati", "05 Jan 2024", Absent, "1800", "2100", "1800", "Khanna"),
         Rec("Other", "10 Jan 2024", Absent, "2100", "2400", "2400", "Khanna") >>,
      << Rec("Other", "not-a-date", Absent, "1800", "2400", "2100", "Khanna"),
         Rec("Basmati", "10 Jan 2024", Absent, "2100", "2400", "2400", "Khanna") >>,
      << Rec("Basmati", "10 Jan 2024", Absent, "", "2400", "2100", "Khanna") >>,
      << Rec("No Data Found", Absent, Absent, Absent, Absent, Absent, Absent) >> }

-----------------------------------------------------------------------------
(* Seasonal information *)

\* str.lower()
Lower(s) ==
    CASE s = "Rice" -> "rice"
      [] s = "RICE" -> "rice"
      [] s = "Wheat" -> "wheat"
      [] s = "Dragonfruit" -> "dragonfruit"
      [] OTHER -> s

Season(g, h, e) == [growing_season |-> g, harvesting_period |-> h, expected_next_harvest |-> e]

\* CROP_SEASONS.get(key, {})
CropSeasonsTable(key) ==
    CASE key = "rice" ->
            Season("Kharif (June-July to October-November)", "September-December", "October-November")
      [] key = "wheat" ->
            Season("Rabi (October-December to March-April)", "February-May", "March-April")
      [] key = "maize" ->
            Season("Both Kharif and Rabi seasons",
                   "September-October (Kharif), February-March (Rabi)", "Varies by region")
      [] key = "potato" ->
            Season("Rabi (October-November to February-March)", "January-March", "January-February")
      [] key = "onion" ->
            Season("Kharif, late Kharif, and Rabi", "Year-round in different regions", "Varies by region")
      [] key = "tomato" ->
            Season("Year-round in different regions", "Varies by region", "Varies by region")
      [] key = "apple" ->
            Season("Spring (March-April)", "July-October", "August-September")
      [] key = "strawberry" ->
            Season("October-November", "January-March", "January-February")
      [] OTHER -> EmptyDict

\* a lookup by the name as given
get_crop_seasons_exact(c) == CropSeasonsTable(c)

\* get_crop_seasons(commodity)
get_crop_seasons(c) == CropSeasonsTable(Lower(c))

Commodities == {"Rice", "RICE", "Dragonfruit"}

-----------------------------------------------------------------------------
(* The remote form: option lists and dates *)

\* the placeholder option of the district and market lists
Placeholder == "--Select--"

\* the characters of the names used as options and as requested names; any
\* other name is taken as one symbol
Chars(s) ==
    CASE s = "Ludhiana" -> <<"L", "u", "d", "h", "i", "a", "n", "a">>
      [] s = "LUDHIANA" -> <<"L", "U", "D", "H", "I", "A", "N", "A">>
      [] s = "Ludhiana West" ->
            <<"L", "u", "d", "h", "i", "a", "n", "a", " ", "W", "e", "s", "t">>
      [] s = "Khanna" -> <<"K", "h", "a", "n", "n", "a">>
      [] s = "Amritsar" -> <<"A", "m", "r", "i", "t", "s", "a", "r">>
      [] s = "Patiala" -> <<"P", "a", "t", "i", "a", "l", "a">>
      [] s = "Jalandhar" -> <<"J", "a", "l", "a", "n", "d", "h", "a", "r">>
      [] s = "Bathinda" -> <<"B", "a", "t", "h", "i", "n", "d", "a">>
      [] s = "--Select--" -> <<"-", "-", "S", "e", "l", "e", "c", "t", "-", "-">>
      [] OTHER -> <<s>>

\* str.lower(), character by character
LowerChars(cs) ==
    LET UpperCase ==
            <<"A", "B", "C", "D", "E", "F", "G", "H", "I", "J", "K", "L", "M",
              "N", "O", "P", "Q", "R", "S", "T", "U", "V", "W", "X", "Y", "Z">>
        LowerCase ==
            <<"a", "b", "c", "d", "e", "f", "g", "h", "i", "j", "k", "l", "m",
              "n", "o", "p", "q", "r", "s", "t", "u", "v", "w", "x", "y", "z">>
    IN [i \in 1..Len(cs) |->
           IF \E k \in 1..Len(UpperCase) : UpperCase[k] = cs[i]
           THEN LowerCase[CHOOSE k \in 1..Len(UpperCase) : UpperCase[k] = cs[i]]
           ELSE cs[i]]

\* a in b, for two strings given by their characters
IsIn(a, b) == \E k \in 0..(Len(b) - Len(a)) : \A i \in 1..Len(a) : b[k + i] = a[i]

\* name.lower() == option_text.lower() or name.lower() in option_text.lower()
CloseMatch(name, option_text) ==
    \/ LowerChars(Chars(name)) = LowerChars(Chars(option_text))
    \/ IsIn(LowerChars(Chars(name)), LowerChars(Chars(option_text)))

\* [o.text for o in dropdown.options if o.text != "--Select--"]
ValidOptions(options) == SelectSeq(options, LAMBDA o : o # Placeholder)

\* the option a loop over the valid options stops at: the first close match
FirstCloseMatch(valid, name) ==
    valid[CHOOSE i \in 1..Len(valid) :
             /\ CloseMatch(name, valid[i])
             /\ \A j \in 1..(i - 1) : ~CloseMatch(name, valid[j])]

\* a district selection without the first-option fallback
SelectDistrictNoFallback(options, name) ==
    LET valid == ValidOptions(options) IN
    IF \E i \in 1..Len(options) : options[i] = name
    THEN [raised |-> "", text |-> name, how |-> "exact"]
    ELSE IF \E i \in 1..Len(valid) : CloseMatch(name, valid[i])
    THEN [raised |-> "", text |-> FirstCloseMatch(valid, name), how |-> "close"]
    ELSE [raised |-> "ValueError", text |-> NoneVal, how |-> "none"]

\* the district selection: exact match, else the first close match, else the
\* first valid option, else ValueError; text is the option selected
SelectDistrict(options, name) ==
    LET valid == ValidOptions(options) IN
    IF \E i \in 1..Len(options) : options[i] = name
    THEN [raised |-> "", text |-> name, how |-> "exact"]
    ELSE IF \E i \in 1..Len(valid) : CloseMatch(name, valid[i])
    THEN [raised |-> "", text |-> FirstCloseMatch(valid, name), how |-> "close"]
    ELSE IF Len(valid) > 0
    THEN [raised |-> "", text |-> valid[1], how |-> "first"]
    ELSE [raised |-> "ValueError", text |-> NoneVal, how |-> "none"]

\* the market selection: ValueError when there is no valid option, else as for
\* the district
SelectMarket(options, name) ==
    LET valid == ValidOptions(options) IN
    IF valid = <<>>
    THEN [raised |-> "ValueError", text |-> NoneVal, how |-> "none"]
    ELSE IF \E i \in 1..Len(options) : options[i] = name
    THEN [raised |-> "", text |-> name, how |-> "exact"]
    ELSE IF \E i \in 1..Len(valid) : CloseMatch(name, valid[i])
    THEN [raised |-> "", text |-> FirstCloseMatch(valid, name), how |-> "close"]
    ELSE [raised |-> "", text |-> valid[1], how |-> "first"]

\* the options of the market list once the district option d is selected
MarketOptions(d) ==
    IF d \in DOMAIN site.markets THEN site.markets[d] ELSE <<Placeholder>>

\* a site that lists the requested district and market
SiteExact ==
    [districts |-> <<Placeholder, "Amritsar", "Ludhiana">>,
     markets |-> [d \in {"Amritsar", "Ludhiana"} |->
                    IF d = "Ludhiana" THEN <<Placeholder, "Khanna", "Ludhiana">>
                    ELSE <<Placeholder, "Amritsar">>]]

\* a site that spells the district in capitals and has a market whose name
\* contains the requested name before the one that equals it but for case
SiteClose ==
    [districts |-> <<Placeholder, "Amritsar", "LUDHIANA">>,
     markets |-> [d \in {"Amritsar", "LUDHIANA"} |->
                    IF d = "LUDHIANA"
                    THEN <<Placeholder, "Khanna", "Ludhiana West", "LUDHIANA">>
                    ELSE <<Placeholder, "Amritsar">>]]

\* the sites of the runs: the two above; a site with neither the requested
\* district nor, under the district it lists first, the requested market; a
\* site whose district list never populates; a site whose market list never
\* populates; a site whose district list holds two placeholders
Sites ==
    {SiteExact,
     SiteClose,
     [districts |-> <<Placeholder, "Patiala", "Amritsar">>,
      markets |-> [d \in {"Patiala", "Amritsar"} |->
                     IF d = "Patiala" THEN <<Placeholder, "Khanna", "Patiala">>
                     ELSE <<Placeholder, "Amritsar">>]],
     [districts |-> <<Placeholder>>, markets |-> [d \in {} |-> <<>>]],
     [districts |-> <<Placeholder, "Amritsar", "Ludhiana">>,
      markets |-> [d \in {"Amritsar", "Ludhiana"} |-> <<Placeholder>>]],
     [districts |-> <<Placeholder, Placeholder>>, markets |-> [d \in {} |-> <<>>]]}

Date(y, m, d) == [year |-> y, month |-> m, day |-> d]

IsLeap(y) == (y % 4 = 0 /\ y % 100 # 0) \/ y % 400 = 0

DaysInMonth(y, m) ==
    CASE m = 2 -> IF IsLeap(y) THEN 29 ELSE 28
      [] m \in {4, 6, 9, 11} -> 30
      [] OTHER -> 31

\* t - timedelta(days=1)
DayBefore(t) ==
    IF t.day > 1 THEN Date(t.year, t.month, t.day - 1)
    ELSE IF t.month > 1 THEN Date(t.year, t.month - 1, DaysInMonth(t.year, t.month - 1))
    ELSE Date(t.year - 1, 12, 31)

RECURSIVE MinusDays(_, _)
\* t - timedelta(days=n)
MinusDays(t, n) == IF n = 0 THEN t ELSE MinusDays(DayBefore(t), n - 1)

MonthNames ==
    <<"Jan", "Feb", "Mar", "Apr", "May", "Jun", "Jul", "Aug", "Sep", "Oct", "Nov", "Dec">>

\* strftime('%d-%b-%Y'): the text dd-Mon-YYYY, kept as its three parts
Strftime(t) == [d |-> t.day, b |-> MonthNames[t.month], Y |-> t.year]

\* text.replace(str(year), "2023") on a text dd-Mon-YYYY: neither the two
\* digits of the day nor the month name can hold the four digits of a year
ReplaceYear(text, year) == IF text.Y = year THEN [text EXCEPT !.Y = 2023] ELSE text

\* default_from and default_to of scrape_commodity
DefaultDates(t) ==
    LET default_from == Strftime(MinusDays(t, 14))
        default_to == Strftime(t)
    IN IF t.year >= 2025
       THEN [from |-> ReplaceYear(default_from, t.year), to |-> ReplaceYear(default_to, t.year)]
       ELSE [from |-> default_from, to |-> default_to]

\* a date argument that was not given
NoDate == [d |-> 0, b |-> "", Y |-> 0]

\* date_from_val and date_to_val: the caller's dates, else the defaults
DateRange(date_from, date_to, t) ==
    [from |-> IF date_from # NoDate THEN date_from ELSE DefaultDates(t).from,
     to |-> IF date_to # NoDate THEN date_to ELSE DefaultDates(t).to]

\* date_from and date_to as get_commodity_price passes them: two weeks ago and today
PassedDates(t) == [from |-> Strftime(MinusDays(t, 14)), to |-> Strftime(t)]

\* no date range
NoDates == [from |-> NoDate, to |-> NoDate]

\* a form on which nothing was entered
NoForm ==
    [mode |-> NoneVal, commodity |-> NoneVal, state |-> NoneVal, district |-> NoneVal,
     market |-> NoneVal, dates |-> NoDates, table |-> NoneVal]

\* what a form step enters
FormValue(here) ==
    CASE here = "mode" -> "Both"
      [] here = "commodity" -> sargs.commodity
      [] here = "state" -> sargs.state
      [] here = "dates" -> DateRange(PassedDates(today).from, PassedDates(today).to, today)

-----------------------------------------------------------------------------
(* scrape_commodity: one browser session per call *)

\* max_retries of the Go-button loop
max_retries == 5

\* driver.quit(): releases the session; on a session already released it has
\* nothing left to release
DriverQuit ==
    /\ quitCount' = quitCount + 1
    /\ driverOpen' = FALSE
    /\ openSessions' = IF driverOpen THEN openSessions - 1 ELSE openSessions

\* a form step inside its own try/except: on failure the handler calls
\* driver.quit() and raises exc, which then passes the outer finally
FormStep(here, next, exc) ==
    /\ spc = here
    /\ \E ok \in BOOLEAN :
          IF ok
          THEN /\ spc' = next
               /\ form' = [form EXCEPT ![here] = FormValue(here)]
               /\ UNCHANGED <<pending, driverOpen, openSessions, quitCount>>
          ELSE /\ spc' = "finally"
               /\ pending' = exc
               /\ form' = form
               /\ DriverQuit
    /\ UNCHANGED <<sargs, retry, sret, created, clicks>>
    /\ UNCHANGED <<sideVars, inputVars,outerVars, engineVars, historyVars>>

\* driver = webdriver.Chrome(options=chrome_options), before the try block
ScrapeCreate ==
    /\ spc = "create"
    /\ \E ok \in BOOLEAN :
          IF ok
          THEN /\ spc' = "get"
               /\ created' = TRUE
               /\ driverOpen' = TRUE
               /\ openSessions' = openSessions + 1
               /\ quitCount' = 0
               /\ pending' = ""
          ELSE /\ spc' = "raised"
               /\ pending' = "WebDriverException"
               /\ UNCHANGED <<created, driverOpen, openSessions, quitCount>>
    /\ UNCHANGED <<sargs, retry, sret, form, clicks>>
    /\ UNCHANGED <<sideVars, inputVars,outerVars, engineVars, historyVars>>

\* driver.get(initial_url): a failure is handled by no inner try
ScrapeOpenPage ==
    /\ spc = "get"
    /\ \E ok \in BOOLEAN :
          IF ok
          THEN spc' = "mode" /\ pending' = pending
          ELSE spc' = "finally" /\ pending' = "WebDriverException"
    /\ UNCHANGED <<sargs, retry, sret, created, driverOpen, openSessions, quitCount>>
    /\ UNCHANGED <<form, clicks>>
    /\ UNCHANGED <<sideVars, inputVars,outerVars, engineVars, historyVars>>

ScrapeSelectMode == FormStep("mode", "commodity", "ValueError")

ScrapeSelectCommodity == FormStep("commodity", "state", "ValueError")

\* a state step that goes on to the market list
ScrapeSelectStateThenMarket == FormStep("state", "market", "ValueError")

ScrapeSelectState == FormStep("state", "district", "ValueError")

\* waits until the district list has more than one option, then selects; the
\* local district is rebound to the option selected; every failure is raised
\* as ValueError by the handler, which quits
ScrapeSelectDistrict ==
    /\ spc = "district"
    /\ \E ok \in BOOLEAN :
          LET chosen == SelectDistrict(site.districts, sargs.district) IN
          IF ok /\ Len(site.districts) > 1 /\ chosen.raised = ""
          THEN /\ spc' = "market"
               /\ form' = [form EXCEPT !.district = chosen.text]
               /\ sargs' = [sargs EXCEPT !.district = chosen.text]
               /\ UNCHANGED <<pending, driverOpen, openSessions, quitCount>>
          ELSE /\ spc' = "finally"
               /\ pending' = "ValueError"
               /\ form' = form
               /\ sargs' = sargs
               /\ DriverQuit
    /\ UNCHANGED <<retry, sret, created, clicks>>
    /\ UNCHANGED <<sideVars, inputVars, outerVars, engineVars, historyVars>>

\* waits until the market list has more than one option, then selects; the
\* local market is rebound only when the first option was taken
ScrapeSelectMarket ==
    /\ spc = "market"
    /\ \E ok \in BOOLEAN :
          LET options == MarketOptions(form.district)
              chosen == SelectMarket(options, sargs.market)
          IN
          IF ok /\ Len(options) > 1 /\ chosen.raised = ""
          THEN /\ spc' = "dates"
               /\ form' = [form EXCEPT !.market = chosen.text]
               /\ sargs' = IF chosen.how = "first"
                           THEN [sargs EXCEPT !.market = chosen.text]
                           ELSE sargs
               /\ UNCHANGED <<pending, driverOpen, openSessions, quitCount>>
          ELSE /\ spc' = "finally"
               /\ pending' = "ValueError"
               /\ form' = form
               /\ sargs' = sargs
               /\ DriverQuit
    /\ UNCHANGED <<retry, sret, created, clicks>>
    /\ UNCHANGED <<sideVars, inputVars, outerVars, engineVars, historyVars>>

ScrapeSetDates == FormStep("dates", "submit", "RuntimeError")

\* a Go-button loop that gives up when the JavaScript click of a pass fails
ScrapeSubmitPrimaryOnly ==
    /\ spc = "submit"
    /\ \E js \in BOOLEAN :
          IF js
          THEN /\ spc' = "table"
               /\ retry' = 0
               /\ clicks' = <<>>
               /\ UNCHANGED <<pending, driverOpen, openSessions, quitCount>>
          ELSE /\ spc' = "finally"
               /\ pending' = "RuntimeError"
               /\ retry' = 0
               /\ clicks' = clicks \o <<"js">>
               /\ DriverQuit
    /\ UNCHANGED <<sargs, sret, created, form>>
    /\ UNCHANGED <<sideVars, inputVars, outerVars, engineVars, historyVars>>

\* one pass of the Go-button loop: JavaScript click, then ActionChains click,
\* then on the last pass document.forms[0].submit(); retry is not read after
\* the loop and is cleared when the loop is left, as the history of
\* the strategies tried is unless the loop ends in the error
ScrapeSubmit ==
    /\ spc = "submit"
    /\ \E js \in BOOLEAN, actions \in BOOLEAN, submitted \in BOOLEAN :
          IF js \/ actions
          THEN /\ spc' = "table"
               /\ retry' = 0
               /\ clicks' = <<>>
               /\ UNCHANGED <<pending, driverOpen, openSessions, quitCount>>
          ELSE IF retry = max_retries - 1
               THEN IF submitted
                    THEN /\ spc' = "table"
                         /\ retry' = 0
                         /\ clicks' = <<>>
                         /\ UNCHANGED <<pending, driverOpen, openSessions, quitCount>>
                    ELSE /\ spc' = "finally"
                         /\ pending' = "RuntimeError"
                         /\ retry' = 0
                         /\ clicks' = clicks \o <<"js", "actions", "form">>
                         /\ DriverQuit
               ELSE /\ retry' = retry + 1
                    /\ clicks' = clicks \o <<"js", "actions">>
                    /\ UNCHANGED <<spc, pending, driverOpen, openSessions, quitCount>>
    /\ UNCHANGED <<sargs, sret, created, form>>
    /\ UNCHANGED <<sideVars, inputVars,outerVars, engineVars, historyVars>>

\* a wait that takes a page without a table for a table without rows
ScrapeWaitTableNoRaise ==
    /\ spc = "table"
    /\ \E found \in {"id", "content", "none"} :
          IF found = "none"
          THEN /\ spc' = "finally"
               /\ pending' = pending
               /\ form' = [form EXCEPT !.table = "none"]
          ELSE /\ spc' = "parse"
               /\ pending' = pending
               /\ form' = [form EXCEPT !.table = "found"]
    /\ UNCHANGED <<sargs, retry, sret, created, driverOpen, openSessions, quitCount, clicks>>
    /\ UNCHANGED <<sideVars, inputVars, outerVars, engineVars, historyVars>>

\* the result table is found by one of its ids, by its header content, or not
\* at all; "No data table found" is re-raised by the handler of the table block,
\* which does not quit
ScrapeWaitTable ==
    /\ spc = "table"
    /\ \E found \in {"id", "content", "none"} :
          IF found = "none"
          THEN /\ spc' = "finally"
               /\ pending' = "RuntimeError"
               /\ form' = [form EXCEPT !.table = "none"]
          ELSE /\ spc' = "parse"
               /\ pending' = pending
               /\ form' = [form EXCEPT !.table = "found"]
    /\ UNCHANGED <<sargs, retry, sret, created, driverOpen, openSessions, quitCount, clicks>>
    /\ UNCHANGED <<sideVars, inputVars,outerVars, engineVars, historyVars>>

\* BeautifulSoup parse of the page: the table may be missing from the page
\* source (RuntimeError), else its rows are returned
ScrapeParse ==
    /\ spc = "parse"
    /\ \/ /\ spc' = "finally"
          /\ pending' = "RuntimeError"
          /\ sret' = sret
       \/ \E jsonList \in RecordLists :
             /\ spc' = "finally"
             /\ pending' = ""
             /\ sret' = jsonList
    /\ UNCHANGED <<sargs, retry, created, driverOpen, openSessions, quitCount, form, clicks>>
    /\ UNCHANGED <<sideVars, inputVars,outerVars, engineVars, historyVars>>

\* a finally block that forgets the release
ScrapeFinallyNoQuit ==
    /\ spc = "finally"
    /\ spc' = IF pending = "" THEN "returned" ELSE "raised"
    /\ UNCHANGED <<sargs, retry, pending, sret, created, driverOpen, openSessions, quitCount>>
    /\ UNCHANGED <<form, clicks>>
    /\ UNCHANGED <<sideVars, inputVars,outerVars, engineVars, historyVars>>

\* finally: driver.quit()
ScrapeFinally ==
    /\ spc = "finally"
    /\ DriverQuit
    /\ spc' = IF pending = "" THEN "returned" ELSE "raised"
    /\ UNCHANGED <<sargs, retry, pending, sret, created, form, clicks>>
    /\ UNCHANGED <<sideVars, inputVars,outerVars, engineVars, historyVars>>

-----------------------------------------------------------------------------
(* get_commodity_price *)

InitialResult ==
    [state |-> NoneVal, district |-> NoneVal, market |-> NoneVal,
     latest_prices |-> EmptyDict, data_points |-> 0, error |-> NoKey]

\* str(e) of an exception caught by the outer handler
ExceptionError(exc) == [text |-> "str(e)", exception |-> exc]

\* a message that leaves the state out
NoDataErrorNoState(c, s) ==
    [text |-> "No price data found for {commodity}", commodity |-> c, state |-> NoneVal]

\* f"No price data found for {commodity} in any market in {state}"
NoDataError(c, s) ==
    [text |-> "No price data found for {commodity} in any market in {state}",
     commodity |-> c, state |-> s]

\* a check that never sees the data, so that no loop stops on it
HasDataNever(data) == FALSE

\* if market_data and len(market_data) > 0
HasData(data) == data # <<>> /\ Len(data) > 0

\* Skip if we already tried this market
AlreadyTried(alt, d, ms) == alt.district = d /\ \E i \in 1..Len(ms) : ms[i] = alt.market

commodity == commodities[ci]

\* a new scrape_commodity call for (d, m)
CallScrape(d, m) ==
    /\ sargs' = [state |-> state, district |-> d, market |-> m, commodity |-> commodity]
    /\ spc' = "create"
    /\ retry' = 0
    /\ pending' = ""
    /\ sret' = <<>>
    /\ calls' = Append(calls, [district |-> d, market |-> m])
    /\ lastOutcome' = "running"
    /\ created' = FALSE
    /\ form' = NoForm
    /\ clicks' = <<>>
    /\ UNCHANGED <<driverOpen, openSessions, quitCount, lastRaised, firstData>>

\* no scrape_commodity call has returned records
NoData ==
    [call |-> 0, records |-> <<>>, selected |-> [district |-> NoneVal, market |-> NoneVal]]

\* the history of a call that returned: with the first records, the options
\* that were selected on the form that produced them
NoteReturn(data) ==
    /\ lastRaised' = lastRaised
    /\ lastOutcome' = IF data = <<>> THEN "empty" ELSE "data"
    /\ firstData' = IF data # <<>> /\ firstData.call = 0
                    THEN [call |-> Len(calls), records |-> data,
                          selected |-> [district |-> form.district, market |-> form.market]]
                    ELSE firstData

\* Step 1: find_nearest_location; an exception goes to the outer handler
FindNearest ==
    /\ pc = "step1"
    /\ LET location_info == find_nearest_location(districtsFile, lat, lon) IN
       IF location_info.raised # ""
       THEN /\ result' = [result EXCEPT !.error = ExceptionError(location_info.raised)]
            /\ pc' = "return"
            /\ UNCHANGED <<state, district>>
       ELSE /\ state' = location_info.state
            /\ district' = location_info.district
            /\ result' = [result EXCEPT !.state = location_info.state,
                                        !.district = location_info.district]
            /\ pc' = "step2"
    /\ UNCHANGED <<markets, market_data, successful_market, mi, ai>>
    /\ UNCHANGED <<sideVars, inputVars,outerVars, scrapeVars, historyVars>>

\* Step 2: get_markets_in_district, then the locals of step 3
GetMarkets ==
    /\ pc = "step2"
    /\ LET found == get_markets_in_district(marketsFile, state, district) IN
       IF found.raised # ""
       THEN /\ result' = [result EXCEPT !.error = ExceptionError(found.raised)]
            /\ pc' = "return"
            /\ UNCHANGED <<markets, market_data, successful_market, mi>>
       ELSE /\ markets' = IF found.markets = <<>> THEN <<"Ludhiana">> ELSE found.markets
            /\ market_data' = <<>>
            /\ successful_market' = NoneVal
            /\ mi' = 1
            /\ pc' = "district_loop"
            /\ UNCHANGED result
    /\ UNCHANGED <<state, district, ai>>
    /\ UNCHANGED <<sideVars, inputVars,outerVars, scrapeVars, historyVars>>

\* for market in markets: the next scrape_commodity call, or the end of the loop
TryDistrictMarket ==
    /\ pc = "district_loop"
    /\ IF mi <= Len(markets)
       THEN /\ CallScrape(district, markets[mi])
            /\ pc' = "district_scrape"
       ELSE /\ pc' = "after_district"
            /\ UNCHANGED <<scrapeVars, historyVars>>
    /\ UNCHANGED <<result, state, district, markets, market_data, successful_market, mi, ai>>
    /\ UNCHANGED <<sideVars, inputVars,outerVars>>

\* scrape_commodity returned in the in-district loop
DistrictReturned ==
    /\ pc = "district_scrape"
    /\ spc = "returned"
    /\ market_data' = sret
    /\ IF HasData(sret)
       THEN /\ successful_market' = markets[mi]
            /\ pc' = "after_district"
            /\ mi' = mi
       ELSE /\ mi' = mi + 1
            /\ pc' = "district_loop"
            /\ UNCHANGED successful_market
    /\ spc' = "idle"
    /\ NoteReturn(sret)
    /\ sret' = <<>>
    /\ UNCHANGED <<result, state, district, markets, ai, calls>>
    /\ form' = NoForm
    /\ clicks' = <<>>
    /\ UNCHANGED <<sargs, retry, pending, created, driverOpen, openSessions, quitCount>>
    /\ UNCHANGED <<sideVars, inputVars,outerVars>>

\* a handler that lets the failure of one market end the query
DistrictRaisedPropagates ==
    /\ pc = "district_scrape"
    /\ spc = "raised"
    /\ result' = [result EXCEPT !.error = ExceptionError(pending)]
    /\ pc' = "return"
    /\ spc' = "idle"
    /\ pending' = ""
    /\ lastOutcome' = "raised"
    /\ lastRaised' = Len(calls)
    /\ UNCHANGED <<state, district, markets, market_data, successful_market, mi, ai>>
    /\ form' = NoForm
    /\ clicks' = <<>>
    /\ UNCHANGED <<calls, firstData, sargs, retry, sret, created, driverOpen, openSessions, quitCount>>
    /\ UNCHANGED <<sideVars, inputVars,outerVars>>

\* except Exception: continue, in the in-district loop
DistrictRaised ==
    /\ pc = "district_scrape"
    /\ spc = "raised"
    /\ mi' = mi + 1
    /\ pc' = "district_loop"
    /\ spc' = "idle"
    /\ pending' = ""
    /\ lastOutcome' = "raised"
    /\ lastRaised' = Len(calls)
    /\ UNCHANGED <<result, state, district, markets, market_data, successful_market, ai>>
    /\ form' = NoForm
    /\ clicks' = <<>>
    /\ UNCHANGED <<calls, firstData, sargs, retry, sret, created, driverOpen, openSessions, quitCount>>
    /\ UNCHANGED <<sideVars, inputVars,outerVars>>

\* the alternate markets are walked whatever the district loop found
CheckAlternatesAlways ==
    /\ pc = "after_district"
    /\ pc' = "alternate_loop"
    /\ ai' = 1
    /\ UNCHANGED <<result, state, district, markets, market_data, successful_market, mi>>
    /\ UNCHANGED <<sideVars, inputVars, outerVars, scrapeVars, historyVars>>

\* If still no data, try alternate markets in the state
CheckAlternates ==
    /\ pc = "after_district"
    /\ IF ~HasData(market_data)
       THEN pc' = "alternate_loop" /\ ai' = 1
       ELSE pc' = "step4" /\ ai' = ai
    /\ UNCHANGED <<result, state, district, markets, market_data, successful_market, mi>>
    /\ UNCHANGED <<sideVars, inputVars,outerVars, scrapeVars, historyVars>>

alternate_markets == get_alternate_markets(state)

\* for market_info in alternate_markets: skip a market already tried, else the
\* next scrape_commodity call, or the end of the loop
TryAlternateMarket ==
    /\ pc = "alternate_loop"
    /\ IF ai <= Len(alternate_markets)
       THEN IF AlreadyTried(alternate_markets[ai], district, markets)
            THEN /\ ai' = ai + 1
                 /\ pc' = pc
                 /\ UNCHANGED <<scrapeVars, historyVars>>
            ELSE /\ CallScrape(alternate_markets[ai].district, alternate_markets[ai].market)
                 /\ pc' = "alternate_scrape"
                 /\ ai' = ai
       ELSE /\ pc' = "step4"
            /\ ai' = ai
            /\ UNCHANGED <<scrapeVars, historyVars>>
    /\ UNCHANGED <<result, state, district, markets, market_data, successful_market, mi>>
    /\ UNCHANGED <<sideVars, inputVars,outerVars>>

\* scrape_commodity returned in the alternate loop
AlternateReturned ==
    /\ pc = "alternate_scrape"
    /\ spc = "returned"
    /\ market_data' = sret
    /\ IF HasData(sret)
       THEN /\ successful_market' = alternate_markets[ai].market
            /\ district' = alternate_markets[ai].district
            /\ result' = [result EXCEPT !.district = alternate_markets[ai].district]
            /\ pc' = "step4"
            /\ ai' = ai
       ELSE /\ ai' = ai + 1
            /\ pc' = "alternate_loop"
            /\ UNCHANGED <<successful_market, district, result>>
    /\ spc' = "idle"
    /\ NoteReturn(sret)
    /\ sret' = <<>>
    /\ UNCHANGED <<state, markets, mi, calls>>
    /\ form' = NoForm
    /\ clicks' = <<>>
    /\ UNCHANGED <<sargs, retry, pending, created, driverOpen, openSessions, quitCount>>
    /\ UNCHANGED <<sideVars, inputVars,outerVars>>

\* except Exception: continue, in the alternate loop
AlternateRaised ==
    /\ pc = "alternate_scrape"
    /\ spc = "raised"
    /\ ai' = ai + 1
    /\ pc' = "alternate_loop"
    /\ spc' = "idle"
    /\ pending' = ""
    /\ lastOutcome' = "raised"
    /\ lastRaised' = Len(calls)
    /\ UNCHANGED <<result, state, district, markets, market_data, successful_market, mi>>
    /\ form' = NoForm
    /\ clicks' = <<>>
    /\ UNCHANGED <<calls, firstData, sargs, retry, sret, created, driverOpen, openSessions, quitCount>>
    /\ UNCHANGED <<sideVars, inputVars,outerVars>>

\* Step 4: Process the results; an exception of get_latest_prices goes to the
\* outer handler after market and data_points were stored
ProcessResults ==
    /\ pc = "step4"
    /\ IF successful_market # NoneVal /\ successful_market # "" /\ market_data # <<>>
       THEN LET latest_prices == get_latest_prices(market_data, NoneVal) IN
            IF latest_prices.raised # ""
            THEN result' = [result EXCEPT !.market = successful_market,
                                          !.data_points = Len(market_data),
                                          !.error = ExceptionError(latest_prices.raised)]
            ELSE result' = [result EXCEPT !.market = successful_market,
                                          !.data_points = Len(market_data),
                                          !.latest_prices = latest_prices.value]
       ELSE result' = [result EXCEPT !.error = NoDataError(commodity, state)]
    /\ pc' = "return"
    /\ UNCHANGED <<state, district, markets, market_data, successful_market, mi, ai>>
    /\ UNCHANGED <<sideVars, inputVars,outerVars, scrapeVars, historyVars>>

-----------------------------------------------------------------------------
(* get_all_commodity_prices *)

\* If no commodities specified, use default commodities
GetAllStart ==
    /\ apc = "start"
    /\ commodities' = IF requested = <<>> THEN <<"Rice", "Wheat">> ELSE requested
    /\ ci' = 1
    /\ apc' = "loop"
    /\ UNCHANGED allResult
    /\ UNCHANGED <<sideVars, inputVars,engineVars, scrapeVars, historyVars>>

\* for commodity in commodities: call get_commodity_price, or return result
GetAllCall ==
    /\ apc = "loop"
    /\ pc = "idle"
    /\ IF ci <= Len(commodities)
       THEN /\ pc' = "step1"
            /\ result' = InitialResult
            /\ state' = NoneVal
            /\ district' = NoneVal
            /\ markets' = <<>>
            /\ market_data' = <<>>
            /\ successful_market' = NoneVal
            /\ mi' = 0
            /\ ai' = 0
            /\ calls' = <<>>
            /\ lastOutcome' = "none"
            /\ lastRaised' = 0
            /\ firstData' = NoData
            /\ apc' = apc
       ELSE /\ apc' = "done"
            /\ UNCHANGED <<engineVars, historyVars>>
    /\ UNCHANGED <<commodities, ci, allResult>>
    /\ UNCHANGED <<sideVars, inputVars,scrapeVars>>

\* seasonal information added only to an entry that carries an error
GetAllStoreOnFailure ==
    /\ apc = "loop"
    /\ pc \in {"return", "raised"}
    /\ LET seasons == get_crop_seasons(commodity)
           commodity_data ==
               IF pc = "raised"
               THEN [error |-> ExceptionError("Exception"), seasonal_info |-> seasons]
               ELSE [state |-> result.state, district |-> result.district,
                     market |-> result.market, latest_prices |-> result.latest_prices,
                     data_points |-> result.data_points, error |-> result.error,
                     seasonal_info |-> IF seasons # EmptyDict /\ result.error # NoKey
                                       THEN seasons ELSE NoKey]
       IN allResult' = (commodity :> commodity_data) @@ allResult
    /\ ci' = ci + 1
    /\ pc' = "idle"
    /\ UNCHANGED <<commodities, apc>>
    /\ UNCHANGED <<result, state, district, markets, market_data, successful_market, mi, ai>>
    /\ UNCHANGED <<sideVars, inputVars, scrapeVars, historyVars>>

\* a loop that ends at the first commodity whose entry carries an error
GetAllStoreThenStop ==
    /\ apc = "loop"
    /\ pc \in {"return", "raised"}
    /\ LET seasons == get_crop_seasons(commodity)
           commodity_data ==
               IF pc = "raised"
               THEN [error |-> ExceptionError("Exception"), seasonal_info |-> seasons]
               ELSE [state |-> result.state, district |-> result.district,
                     market |-> result.market, latest_prices |-> result.latest_prices,
                     data_points |-> result.data_points, error |-> result.error,
                     seasonal_info |-> IF seasons # EmptyDict THEN seasons ELSE NoKey]
       IN /\ allResult' = (commodity :> commodity_data) @@ allResult
          /\ ci' = IF commodity_data.error # NoKey THEN Len(commodities) + 1 ELSE ci + 1
    /\ pc' = "idle"
    /\ UNCHANGED <<commodities, apc>>
    /\ UNCHANGED <<result, state, district, markets, market_data, successful_market, mi, ai>>
    /\ UNCHANGED <<sideVars, inputVars, scrapeVars, historyVars>>

\* get_commodity_price returned (or raised): seasonal information is added and
\* the entry of the commodity is stored
GetAllStore ==
    /\ apc = "loop"
    /\ pc \in {"return", "raised"}
    /\ LET seasons == get_crop_seasons(commodity)
           commodity_data ==
               IF pc = "raised"
               THEN [error |-> ExceptionError("Exception"), seasonal_info |-> seasons]
               ELSE [state |-> result.state, district |-> result.district,
                     market |-> result.market, latest_prices |-> result.latest_prices,
                     data_points |-> result.data_points, error |-> result.error,
                     seasonal_info |-> IF seasons # EmptyDict THEN seasons ELSE NoKey]
       IN allResult' = (commodity :> commodity_data) @@ allResult
    /\ ci' = ci + 1
    /\ pc' = "idle"
    /\ UNCHANGED <<commodities, apc>>
    /\ UNCHANGED <<result, state, district, markets, market_data, successful_market, mi, ai>>
    /\ UNCHANGED <<sideVars, inputVars,scrapeVars, historyVars>>

-----------------------------------------------------------------------------
(* The specification *)

RECURSIVE SeqsUpTo(_, _)
\* the sequences over S of length at most n
SeqsUpTo(S, n) ==
    IF n = 0 THEN {<<>>}
    ELSE LET shorter == SeqsUpTo(S, n - 1) IN
         shorter \cup {Append(q, x) : q \in shorter, x \in S}

\* get_latest_prices not called yet
NotSelected == [done |-> FALSE, raised |-> "", value |-> EmptyDict]

\* find_markets_by_coordinates not called yet
NotFound == [done |-> FALSE, raised |-> "", markets |-> <<>>]

\* the date of the runs
Today == Date(2026, 11, 4)

\* no direct get_latest_prices call, no find_markets_by_coordinates call and no
\* second get_commodity_price call, on a site that lists only a few names
NoSideCalls ==
    /\ price_data = <<>>
    /\ commodity_variety = NoneVal
    /\ latest = NotSelected
    /\ geocoded_markets = <<>>
    /\ market_database = <<>>
    /\ reverse_geocoded = [state |-> NoneVal, district |-> NoneVal]
    /\ found_markets = NotFound
    /\ tid = 1
    /\ other = <<>>
    /\ site = SiteExact
    /\ today = Today
    /\ typed = NoDates
    /\ NoDistanceCall

StartOfCall ==
    /\ result = InitialResult
    /\ state = NoneVal
    /\ district = NoneVal
    /\ markets = <<>>
    /\ market_data = <<>>
    /\ successful_market = NoneVal
    /\ mi = 0
    /\ ai = 0
    /\ spc = "idle"
    /\ sargs = [state |-> NoneVal, district |-> NoneVal, market |-> NoneVal, commodity |-> NoneVal]
    /\ retry = 0
    /\ pending = ""
    /\ sret = <<>>
    /\ created = FALSE
    /\ driverOpen = FALSE
    /\ openSessions = 0
    /\ quitCount = 0
    /\ form = NoForm
    /\ clicks = <<>>
    /\ calls = <<>>
    /\ lastOutcome = "none"
    /\ lastRaised = 0
    /\ firstData = NoData

\* one direct call get_commodity_price(lat, lon, commodity), as the tests and
\* tools/multi_commodity_lookup.py make it
Init ==
    /\ districtsFile \in DistrictFiles
    /\ marketsFile \in MarketFiles
    /\ \E p \in QueryPoints : lat = p[1] /\ lon = p[2]
    /\ \E c \in Commodities : requested = <<c>>
    /\ commodities = requested
    /\ apc = "direct"
    /\ ci = 1
    /\ allResult = <<>>
    /\ pc = "step1"
    /\ StartOfCall
    /\ NoSideCalls

NextCall ==
    \/ FindNearest
    \/ GetMarkets
    \/ TryDistrictMarket
    \/ DistrictReturned
    \/ DistrictRaised
    \/ CheckAlternates
    \/ TryAlternateMarket
    \/ AlternateReturned
    \/ AlternateRaised
    \/ ProcessResults
    \/ ScrapeCreate
    \/ ScrapeOpenPage
    \/ ScrapeSelectMode
    \/ ScrapeSelectCommodity
    \/ ScrapeSelectState
    \/ ScrapeSelectDistrict
    \/ ScrapeSelectMarket
    \/ ScrapeSetDates
    \/ ScrapeSubmit
    \/ ScrapeWaitTable
    \/ ScrapeParse
    \/ ScrapeFinally

Next == NextCall

Spec == Init /\ [][Next]_vars

\* the reference data and query points of the get_all_commodity_prices runs
AllScenarios ==
    { <<File("list", DistrictRows), File("list", MarketRows), <<31, 76>>>>,
      <<File("list", DistrictRows), File("list", MarketRows), <<30, 77>>>>,
      <<File("list", DistrictRowsOther), File("list", MarketRows), <<30, 75>>>>,
      <<File("missing", <<>>), File("missing", <<>>), <<31, 76>>>>,
      <<File("object", <<>>), File("list", MarketRows), <<31, 76>>>> }

\* one call get_all_commodity_prices(lat, lon, requested)
InitAll ==
    /\ \E sc \in AllScenarios :
          /\ districtsFile = sc[1]
          /\ marketsFile = sc[2]
          /\ lat = sc[3][1]
          /\ lon = sc[3][2]
    /\ requested \in SeqsUpTo(Commodities, MaxCommodities)
    /\ commodities = requested
    /\ apc = "start"
    /\ ci = 0
    /\ allResult = <<>>
    /\ pc = "idle"
    /\ StartOfCall
    /\ NoSideCalls

NextAll ==
    \/ GetAllStart
    \/ GetAllCall
    \/ GetAllStore
    \/ NextCall

SpecAll == InitAll /\ [][NextAll]_vars

-----------------------------------------------------------------------------
(* A direct call of get_latest_prices *)

\* longest record list passed to get_latest_prices
MaxRecords == 3

\* rows a scrape can yield: two varieties, a shared date, a date under
\* 'Reported Date' only, a date that does not parse, a blank and a missing price
SelectRecords ==
    { Rec("A", "05 Jan 2024", Absent, "1800", "2100", "1800", "Khanna"),
      Rec("A", "10 Jan 2024", Absent, "2100", "2400", "2400", "Khanna"),
      Rec("B", "10 Jan 2024", Absent, "1800", "2400", "2100", "Khanna"),
      Rec("B", Absent, "05 Jan 2024", Absent, "2400", "2100", "Khanna"),
      Rec("A", "not-a-date", Absent, "1800", "2400", "2100", "Khanna"),
      Rec("A", "10 Jan 2024", Absent, "", "2400", "2100", "Ludhiana") }

\* the commodity_variety arguments: not given, two varieties of the rows, one of none
Varieties == {NoneVal, "A", "B", "C"}

\* the locals of get_commodity_price and get_all_commodity_prices when neither runs
NoQuery ==
    /\ districtsFile = File("missing", <<>>)
    /\ marketsFile = File("missing", <<>>)
    /\ lat = 0
    /\ lon = 0
    /\ requested = <<>>
    /\ commodities = <<>>
    /\ apc = "none"
    /\ ci = 0
    /\ allResult = <<>>
    /\ pc = "idle"
    /\ StartOfCall

\* latest = get_latest_prices(price_data, commodity_variety)
GetLatestPrices ==
    /\ ~latest.done
    /\ LET r == get_latest_prices(price_data, commodity_variety)
       IN latest' = [done |-> TRUE, raised |-> r.raised, value |-> r.value]
    /\ UNCHANGED <<price_data, commodity_variety, geoVars, pairVars, envVars>>
    /\ UNCHANGED <<inputVars, outerVars, engineVars, scrapeVars, historyVars>>

InitSelect ==
    /\ NoQuery
    /\ price_data \in SeqsUpTo(SelectRecords, MaxRecords)
    /\ commodity_variety \in Varieties
    /\ latest = NotSelected
    /\ geocoded_markets = <<>>
    /\ market_database = <<>>
    /\ reverse_geocoded = [state |-> NoneVal, district |-> NoneVal]
    /\ found_markets = NotFound
    /\ tid = 1
    /\ other = <<>>
    /\ site = SiteExact
    /\ today = Today
    /\ typed = NoDates
    /\ NoDistanceCall

NextSelect == GetLatestPrices

SpecSelect == InitSelect /\ [][NextSelect]_vars

-----------------------------------------------------------------------------
(* tools/geo_utils.py: find_markets_by_coordinates over the geocoded markets *)

\* one market of geocoded_markets.json, in the file's order (state, district,
\* market); coords is [lat, lon], or [] after a geocoding failure
GM(s, d, m, c) == [state |-> s, district |-> d, market |-> m, coords |-> c]

\* geocode_markets stores [lat, lon] for every market
GeocodedAll ==
    << GM("Punjab", "Ludhiana", "Jagraon", <<32, 75>>),
       GM("Punjab", "Ludhiana", "Ludhiana", <<31, 76>>),
       GM("Punjab", "Ludhiana", "Khanna", <<30, 77>>),
       GM("Punjab", "Patiala", "Patiala", <<30, 76>>),
       GM("Punjab", "Patiala", "Rajpura", <<30, 76>>),
       GM("Haryana", "Karnal", "Karnal", <<29, 77>>) >>

\* geocode_markets stores [] for a market it could not geocode
GeocodedWithFailure ==
    << GM("Punjab", "Ludhiana", "Jagraon", <<>>),
       GM("Punjab", "Ludhiana", "Ludhiana", <<31, 76>>),
       GM("Punjab", "Ludhiana", "Khanna", <<30, 77>>),
       GM("Haryana", "Karnal", "Karnal", <<29, 77>>) >>

GeocodedOneDistrict ==
    << GM("Punjab", "Patiala", "Patiala", <<30, 76>>),
       GM("Punjab", "Patiala", "Rajpura", <<31, 76>>) >>

\* load_geocoded_markets(): {} (here <<>>) when the file is missing or unreadable
GeocodedFiles == { <<>>, GeocodedAll, GeocodedWithFailure, GeocodedOneDistrict }

\* one district of market_data["states"][state]["districts"] with the names
\* under its "markets", in the file's order
MD(s, d, ms) == [state |-> s, district |-> d, markets |-> ms]

MarketDatabaseRows ==
    << MD("Punjab", "Ludhiana", <<"Jagraon", "Ludhiana", "Khanna">>),
       MD("Punjab", "Patiala", <<"Patiala", "Rajpura">>),
       MD("Haryana", "Karnal", <<"Karnal">>) >>

MarketDatabaseNoKarnal ==
    << MD("Punjab", "Ludhiana", <<"Jagraon", "Ludhiana", "Khanna">>),
       MD("Punjab", "Patiala", <<"Patiala", "Rajpura">>) >>

\* load_market_database(): {} (here <<>>) when the file is missing or unreadable
MarketDatabases == { <<>>, MarketDatabaseRows, MarketDatabaseNoKarnal }

\* address fields of get_location_info (cache, Nominatim or the rough-region guess)
ReverseGeocoded ==
    { [state |-> "Punjab", district |-> "Kharar"],
      [state |-> "Haryana", district |-> "Karnal"],
      [state |-> "Delhi", district |-> "New Delhi"],
      [state |-> NoneVal, district |-> NoneVal] }

\* calculate_distance: the haversine formula of its ImportError branch
calculate_distance(coord1, coord2) == haversine_distance(coord1, coord2)

RECURSIVE NearestMarketFrom(_, _, _, _, _)
\* the loops of get_nearest_location_from_database over entries that unpack
NearestMarketFrom(gm, i, best, bestDist, point) ==
    IF i > Len(gm) THEN <<best, bestDist>>
    ELSE LET d == calculate_distance(point, gm[i].coords) IN
         IF bestDist = -1 \/ d < bestDist
         THEN NearestMarketFrom(gm, i + 1, i, d, point)
         ELSE NearestMarketFrom(gm, i + 1, best, bestDist, point)

NoLocation ==
    [raised |-> "", found |-> FALSE, state |-> NoneVal, district |-> NoneVal,
     market |-> NoneVal, distance_km |-> 0]

\* get_nearest_location_from_database(lat, lon): 'market_lat, market_lon = coords'
\* raises ValueError on a coordinate list that has not two elements
get_nearest_location_from_database(gm, la, lo) ==
    IF gm = <<>> THEN NoLocation
    ELSE IF \E i \in 1..Len(gm) : Len(gm[i].coords) # 2
    THEN [NoLocation EXCEPT !.raised = "ValueError"]
    ELSE LET n == NearestMarketFrom(gm, 1, 0, -1, <<la, lo>>) IN
         [raised |-> "", found |-> TRUE, state |-> gm[n[1]].state,
          district |-> gm[n[1]].district, market |-> gm[n[1]].market, distance_km |-> n[2]]

\* normalize_district_name on the names of the model
normalize_district_name(d) ==
    CASE d = NoneVal -> ""
      [] d = "Kharar" -> "Mohali"
      [] OTHER -> d

\* list(district_data["markets"].keys()) of (s, d); found is FALSE when the
\* database has no such state or district
DatabaseMarkets(db, s, d) ==
    IF \E i \in 1..Len(db) : db[i].state = s /\ db[i].district = d
    THEN [found |-> TRUE,
          markets |-> db[CHOOSE i \in 1..Len(db) : db[i].state = s /\ db[i].district = d].markets]
    ELSE [found |-> FALSE, markets |-> <<>>]

\* markets_by_district of get_nearest_markets, the rows the model reaches
\* (a district the table lacks gets the markets of the state's first district,
\* a state it lacks the three default names)
markets_by_district(s, d) ==
    IF s = "Punjab"
    THEN CASE d = "Patiala" -> <<"Patiala", "Rajpura", "Nabha">>
           [] d = "Mohali" -> <<"Sri Har Gobindpur", "Kharar", "Mohali">>
           [] OTHER -> <<"Ludhiana", "Khanna", "Jagraon">>
    ELSE IF s = "Haryana"
    THEN CASE d = "Ambala" -> <<"Ambala", "Naraingarh", "Barara">>
           [] OTHER -> <<"Karnal", "Assandh", "Taraori">>
    ELSE <<"Nearest Market", "Central Market", "Regional Market">>

\* get_nearest_markets(state, district): the database first, then the table
get_nearest_markets(db, s, d) ==
    LET inDatabase == DatabaseMarkets(db, s, normalize_district_name(d)) IN
    IF inDatabase.found THEN inDatabase.markets
    ELSE markets_by_district(s, normalize_district_name(d))

\* get_state_district(lat, lon): the geocoded database first, then the address
get_state_district(nearest, address) ==
    IF nearest.found THEN <<nearest.state, nearest.district>>
    ELSE << IF address.state = NoneVal THEN "Punjab" ELSE address.state,
            IF address.district = NoneVal THEN NoneVal
            ELSE normalize_district_name(address.district) >>

\* markets.remove(m); markets.insert(0, m)
NearestFirst(ms, m) ==
    IF \E i \in 1..Len(ms) : ms[i] = m
    THEN <<m>> \o SelectSeq(ms, LAMBDA x : x # m)
    ELSE ms

\* find_markets_by_coordinates(lat, lon)
find_markets_by_coordinates(gm, db, la, lo, address) ==
    LET nearest_location == get_nearest_location_from_database(gm, la, lo)
        inDatabase == DatabaseMarkets(db, nearest_location.state, nearest_location.district)
        fallback == get_state_district(nearest_location, address)
    IN
    IF nearest_location.raised # ""
    THEN [raised |-> nearest_location.raised, markets |-> <<>>]
    ELSE IF nearest_location.found /\ inDatabase.found
    THEN [raised |-> "", markets |-> NearestFirst(inDatabase.markets, nearest_location.market)]
    ELSE [raised |-> "", markets |-> get_nearest_markets(db, fallback[1], fallback[2])]

\* found_markets = find_markets_by_coordinates(lat, lon)
FindMarketsByCoordinates ==
    /\ ~found_markets.done
    /\ LET r == find_markets_by_coordinates(geocoded_markets, market_database, lat, lon,
                                            reverse_geocoded)
       IN found_markets' = [done |-> TRUE, raised |-> r.raised, markets |-> r.markets]
    /\ UNCHANGED <<geocoded_markets, market_database, reverse_geocoded, selectVars, pairVars,
                   envVars>>
    /\ UNCHANGED <<inputVars, outerVars, engineVars, scrapeVars, historyVars>>

InitGeo ==
    /\ districtsFile = File("missing", <<>>)
    /\ marketsFile = File("missing", <<>>)
    /\ \E p \in QueryPoints : lat = p[1] /\ lon = p[2]
    /\ requested = <<>>
    /\ commodities = <<>>
    /\ apc = "none"
    /\ ci = 0
    /\ allResult = <<>>
    /\ pc = "idle"
    /\ StartOfCall
    /\ price_data = <<>>
    /\ commodity_variety = NoneVal
    /\ latest = NotSelected
    /\ geocoded_markets \in GeocodedFiles
    /\ market_database \in MarketDatabases
    /\ reverse_geocoded \in ReverseGeocoded
    /\ found_markets = NotFound
    /\ tid = 1
    /\ other = <<>>
    /\ site = SiteExact
    /\ today = Today
    /\ typed = NoDates
    /\ NoDistanceCall

NextGeo == FindMarketsByCoordinates

SpecGeo == InitGeo /\ [][NextGeo]_vars

-----------------------------------------------------------------------------
(* get_commodity_price against remote forms with different option lists *)

\* get_commodity_price(30, 75, "Rice") with no districts file, so for Punjab
\* and Ludhiana, on any of the sites
InitForm ==
    /\ districtsFile = File("missing", <<>>)
    /\ marketsFile \in {File("missing", <<>>), File("list", MarketRows)}
    /\ lat = 30
    /\ lon = 75
    /\ requested = <<"Rice">>
    /\ commodities = requested
    /\ apc = "direct"
    /\ ci = 1
    /\ allResult = <<>>
    /\ pc = "step1"
    /\ StartOfCall
    /\ price_data = <<>>
    /\ commodity_variety = NoneVal
    /\ latest = NotSelected
    /\ geocoded_markets = <<>>
    /\ market_database = <<>>
    /\ reverse_geocoded = [state |-> NoneVal, district |-> NoneVal]
    /\ found_markets = NotFound
    /\ tid = 1
    /\ other = <<>>
    /\ site \in Sites
    /\ today \in {Date(2024, 1, 5), Today}
    /\ typed = NoDates
    /\ NoDistanceCall

NextForm == NextCall

SpecForm == InitForm /\ [][NextForm]_vars

-----------------------------------------------------------------------------
(* scrape_commodity called without dates *)

\* the last year of the dates of the runs
LastYear == 2026

\* the date step of scrape_commodity(state, district, market, commodity): no
\* date_from and no date_to, so the defaults are typed
ScrapeDefaultDates ==
    /\ typed = NoDates
    /\ typed' = DateRange(NoDate, NoDate, today)
    /\ UNCHANGED <<site, today, distanceVars, selectVars, geoVars, pairVars>>
    /\ UNCHANGED <<inputVars, outerVars, engineVars, scrapeVars, historyVars>>

InitDates ==
    /\ districtsFile = File("missing", <<>>)
    /\ marketsFile = File("missing", <<>>)
    /\ lat = 30
    /\ lon = 75
    /\ requested = <<>>
    /\ commodities = <<>>
    /\ apc = "none"
    /\ ci = 0
    /\ allResult = <<>>
    /\ pc = "idle"
    /\ StartOfCall
    /\ price_data = <<>>
    /\ commodity_variety = NoneVal
    /\ latest = NotSelected
    /\ geocoded_markets = <<>>
    /\ market_database = <<>>
    /\ reverse_geocoded = [state |-> NoneVal, district |-> NoneVal]
    /\ found_markets = NotFound
    /\ tid = 1
    /\ other = <<>>
    /\ site = SiteExact
    /\ today \in {t \in [year : 2023..LastYear, month : 1..12, day : 1..31] :
                    t.day <= DaysInMonth(t.year, t.month)}
    /\ typed = NoDates
    /\ NoDistanceCall

NextDates == ScrapeDefaultDates

SpecDates == InitDates /\ [][NextDates]_vars

-----------------------------------------------------------------------------
(* The specification of the direct haversine_distance calls *)

InitDistance ==
    /\ districtsFile = File("missing", <<>>)
    /\ marketsFile = File("missing", <<>>)
    /\ lat = 30
    /\ lon = 75
    /\ requested = <<>>
    /\ commodities = <<>>
    /\ apc = "none"
    /\ ci = 0
    /\ allResult = <<>>
    /\ pc = "idle"
    /\ StartOfCall
    /\ price_data = <<>>
    /\ commodity_variety = NoneVal
    /\ latest = NotSelected
    /\ geocoded_markets = <<>>
    /\ market_database = <<>>
    /\ reverse_geocoded = [state |-> NoneVal, district |-> NoneVal]
    /\ found_markets = NotFound
    /\ tid = 1
    /\ other = <<>>
    /\ site = SiteExact
    /\ today = Today
    /\ typed = NoDates
    /\ geopy \in BOOLEAN
    /\ coords \in GridPoints \X GridPoints
    /\ distance = [done |-> FALSE, metres |-> 0]

NextDistance == HaversineDistanceCall

SpecDistance == InitDistance /\ [][NextDistance]_vars

-----------------------------------------------------------------------------
(* Two get_commodity_price calls at once *)

\* what one get_commodity_price call owns: its arguments, its local variables,
\* the locals and the session of its scrape_commodity call, and its history
Locals ==
    [lat |-> lat,
     lon |-> lon,
     requested |-> requested,
     commodities |-> commodities,
     pc |-> pc,
     result |-> result,
     state |-> state,
     district |-> district,
     markets |-> markets,
     market_data |-> market_data,
     successful_market |-> successful_market,
     mi |-> mi,
     ai |-> ai,
     spc |-> spc,
     sargs |-> sargs,
     retry |-> retry,
     pending |-> pending,
     sret |-> sret,
     created |-> created,
     driverOpen |-> driverOpen,
     quitCount |-> quitCount,
     form |-> form,
     clicks |-> clicks,
     calls |-> calls,
     lastOutcome |-> lastOutcome,
     lastRaised |-> lastRaised,
     firstData |-> firstData]

\* a switch between calls that keep market_data in one place
SwitchSharingMarketData ==
    /\ other' = Locals
    /\ tid' = 3 - tid
    /\ lat' = other.lat
    /\ lon' = other.lon
    /\ requested' = other.requested
    /\ commodities' = other.commodities
    /\ pc' = other.pc
    /\ result' = other.result
    /\ state' = other.state
    /\ district' = other.district
    /\ markets' = other.markets
    /\ market_data' = market_data
    /\ successful_market' = other.successful_market
    /\ mi' = other.mi
    /\ ai' = other.ai
    /\ spc' = other.spc
    /\ sargs' = other.sargs
    /\ retry' = other.retry
    /\ pending' = other.pending
    /\ sret' = other.sret
    /\ created' = other.created
    /\ driverOpen' = other.driverOpen
    /\ quitCount' = other.quitCount
    /\ form' = other.form
    /\ clicks' = other.clicks
    /\ calls' = other.calls
    /\ lastOutcome' = other.lastOutcome
    /\ lastRaised' = other.lastRaised
    /\ firstData' = other.firstData
    /\ UNCHANGED <<districtsFile, marketsFile, openSessions, apc, ci, allResult>>
    /\ UNCHANGED <<selectVars, geoVars, envVars>>

\* the running call is suspended between two steps and the other call runs:
\* the files and the count of open sessions are all the two have in common
Switch ==
    /\ other' = Locals
    /\ tid' = 3 - tid
    /\ lat' = other.lat
    /\ lon' = other.lon
    /\ requested' = other.requested
    /\ commodities' = other.commodities
    /\ pc' = other.pc
    /\ result' = other.result
    /\ state' = other.state
    /\ district' = other.district
    /\ markets' = other.markets
    /\ market_data' = other.market_data
    /\ successful_market' = other.successful_market
    /\ mi' = other.mi
    /\ ai' = other.ai
    /\ spc' = other.spc
    /\ sargs' = other.sargs
    /\ retry' = other.retry
    /\ pending' = other.pending
    /\ sret' = other.sret
    /\ created' = other.created
    /\ driverOpen' = other.driverOpen
    /\ quitCount' = other.quitCount
    /\ form' = other.form
    /\ clicks' = other.clicks
    /\ calls' = other.calls
    /\ lastOutcome' = other.lastOutcome
    /\ lastRaised' = other.lastRaised
    /\ firstData' = other.firstData
    /\ UNCHANGED <<districtsFile, marketsFile, openSessions, apc, ci, allResult>>
    /\ UNCHANGED <<selectVars, geoVars, envVars>>

\* the locals of a call get_commodity_price(la, lo, c) that has not started
StartLocals(la, lo, c) ==
    [lat |-> la, lon |-> lo, requested |-> <<c>>, commodities |-> <<c>>,
     pc |-> "step1", result |-> InitialResult, state |-> NoneVal, district |-> NoneVal,
     markets |-> <<>>, market_data |-> <<>>, successful_market |-> NoneVal, mi |-> 0, ai |-> 0,
     spc |-> "idle",
     sargs |-> [state |-> NoneVal, district |-> NoneVal, market |-> NoneVal, commodity |-> NoneVal],
     retry |-> 0, pending |-> "", sret |-> <<>>, created |-> FALSE, driverOpen |-> FALSE,
     quitCount |-> 0, form |-> NoForm, clicks |-> <<>>, calls |-> <<>>, lastOutcome |-> "none", lastRaised |-> 0,
     firstData |-> NoData]

\* get_commodity_price(30, 75, "Rice") and get_commodity_price(30, 75, c) for
\* another commodity c, started together
InitPair ==
    /\ districtsFile = File("list", DistrictRowsOther)
    /\ marketsFile \in {File("missing", <<>>), File("list", MarketRows)}
    /\ lat = 30
    /\ lon = 75
    /\ requested = <<"Rice">>
    /\ commodities = requested
    /\ apc = "direct"
    /\ ci = 1
    /\ allResult = <<>>
    /\ pc = "step1"
    /\ StartOfCall
    /\ price_data = <<>>
    /\ commodity_variety = NoneVal
    /\ latest = NotSelected
    /\ geocoded_markets = <<>>
    /\ market_database = <<>>
    /\ reverse_geocoded = [state |-> NoneVal, district |-> NoneVal]
    /\ found_markets = NotFound
    /\ tid = 1
    /\ \E c \in {"Wheat", "Dragonfruit"} : other = StartLocals(30, 75, c)
    /\ site = SiteExact
    /\ today = Today
    /\ typed = NoDates
    /\ NoDistanceCall

NextPair ==
    \/ Switch
    \/ NextCall

SpecPair == InitPair /\ [][NextPair]_vars

-----------------------------------------------------------------------------
(* Properties *)

\* what the resolver yields for the inputs of the run
ResolvedLocation == find_nearest_location(districtsFile, lat, lon)

ResolvedMarkets ==
    get_markets_in_district(marketsFile, ResolvedLocation.state, ResolvedLocation.district)

Resolved == ResolvedLocation.raised = "" /\ ResolvedMarkets.raised = ""

\* the candidates of the run in try-order: the markets of the resolved district,
\* then the alternate markets of the resolved state
InDistrictCandidates ==
    [i \in 1..Len(ResolvedMarkets.markets) |->
        [district |-> ResolvedLocation.district, market |-> ResolvedMarkets.markets[i]]]

Candidates == InDistrictCandidates \o get_alternate_markets(ResolvedLocation.state)

AllTried ==
    LET cands == Candidates
    IN  \A i \in 1..Len(cands) : \E k \in 1..Len(calls) : calls[k] = cands[i]

\* every candidate was tried and none returned a record
Exhausted == firstData.call = 0 /\ lastOutcome \in {"raised", "empty"} /\ Resolved /\ AllTried

\* C1: once a scrape_commodity call of a get_commodity_price call has returned
\* at least one record, no further scrape_commodity call is made: the call that
\* returned data is the last invocation.
C1_NoScrapeAfterData == firstData.call # 0 => Len(calls) = firstData.call

\* the first in-district market returned data while a second one, and the
\* alternate markets, were still untried
C1_Witness ==
    /\ pc = "return"
    /\ firstData.call = 1
    /\ Len(markets) > 1
    /\ Len(calls) = 1

\* C2: when some candidate yields data, the result names that first candidate
\* as market, the district it was queried under as district, the number of its
\* records as data_points, and its latest_prices come from one of its records.
C2_ResultFromFirstDataCandidate ==
    (pc = "return" /\ firstData.call # 0) =>
        /\ result.market = calls[firstData.call].market
        /\ result.district = calls[firstData.call].district
        /\ result.data_points = Len(firstData.records)
        /\ result.latest_prices # EmptyDict
        /\ \E i \in 1..Len(firstData.records) :
              /\ result.latest_prices.variety = GetOr(firstData.records[i].Variety, "Unknown")
              /\ result.latest_prices.date = GetOr(firstData.records[i].Price_Date,
                                                  GetOr(firstData.records[i].Reported_Date, "Unknown"))

\* C3: get_commodity_price never raises, and a scrape_commodity call that
\* raised does not end the query: when the engine has left the candidate loops
\* after a call that raised, both loops had run to their end.
C3_FailureNeverEndsQuery ==
    /\ pc # "raised"
    /\ (pc \in {"step4", "return"} /\ lastOutcome = "raised") =>
           /\ mi > Len(markets)
           /\ ai > Len(get_alternate_markets(state))

\* a call raised and a later candidate was tried after it
C3_Witness ==
    /\ pc = "return"
    /\ lastRaised # 0
    /\ Len(calls) > lastRaised

\* C4: in every returned result the error is set exactly when no records were
\* found: with an error data_points = 0 and latest_prices is empty, without an
\* error data_points >= 1 and latest_prices is not empty.
C4_ErrorIffNoData ==
    pc = "return" =>
        /\ (result.error # NoKey) <=> (firstData.call = 0)
        /\ (result.error # NoKey) => (result.data_points = 0 /\ result.latest_prices = EmptyDict)
        /\ (result.error = NoKey) => (result.data_points >= 1 /\ result.latest_prices # EmptyDict)

\* C5: when every candidate has raised or returned no records, the result has
\* data_points = 0, empty latest_prices and the 'No price data found' error
\* that names the commodity and the resolved state.
C5_ExhaustedResult ==
    (pc = "return" /\ Exhausted) =>
        /\ result.data_points = 0
        /\ result.latest_prices = EmptyDict
        /\ result.error =
              [text |-> "No price data found for {commodity} in any market in {state}",
               commodity |-> commodities[ci], state |-> ResolvedLocation.state]

\* all candidates were tried, one of them raised, and the call has returned
C5_Witness ==
    /\ pc = "return"
    /\ Exhausted
    /\ lastRaised # 0
    /\ Len(calls) >= 2

\* the commodity whose entry get_all_commodity_prices has just stored
StoredCommodity == commodities[ci - 1]

JustStored == apc = "loop" /\ pc = "idle" /\ ci > 1

\* CROP_SEASONS as a set of keys
KnownCrops == {"rice", "wheat", "maize", "potato", "onion", "tomato", "apple", "strawberry"}

C7_QuitExactlyOnce == (spc \in {"returned", "raised"} /\ created) => quitCount = 1

\* C8: no session outlives its scrape_commodity call: at most one session is
\* open at any time, none is open when a scrape_commodity call starts or has
\* ended, and none is open when get_commodity_price returns.
C8_NoSessionLeak ==
    /\ openSessions <= 1
    /\ spc \in {"create", "returned", "raised", "idle"} => openSessions = 0
    /\ pc = "return" => openSessions = 0

\* a second candidate is about to create its session after the first one's
\* session was created and released
C8_Witness ==
    /\ spc = "create"
    /\ Len(calls) = 2
    /\ quitCount >= 1
    /\ openSessions = 0

\* a dataset that is missing, not valid JSON (also: an empty file), not an
\* array, or an array without rows
Unusable(file) == file.kind # "list" \/ file.rows = <<>>

\* C9: when the reference datasets are missing, empty or malformed, the
\* resolver yields Punjab / Ludhiana with candidate markets and the engine
\* tries them: no exception ends the call before the first candidate.
C9_DefaultsOnBadDatasets ==
    (pc = "return" /\ Unusable(districtsFile) /\ Unusable(marketsFile)) =>
        /\ result.state = "Punjab"
        /\ Len(calls) >= 1
        /\ calls[1].district = "Ludhiana"

\* C10: when the market dataset has rows but none matches the resolved (state,
\* district), the candidate markets are the major markets of the resolved state.
C10_FallbackIsStateMajorMarkets ==
    (/\ pc = "district_loop"
     /\ mi = 1
     /\ marketsFile.kind = "list"
     /\ marketsFile.rows # <<>>
     /\ DistrictMarketsFrom(marketsFile.rows, 1, state, district) = <<>>) =>
        markets = [i \in 1..Len(get_alternate_markets(state)) |->
                      get_alternate_markets(state)[i].market]

\* the entry get_all_commodity_prices has just stored
StoredEntry == allResult[StoredCommodity]

\* C16 as stated: an entry carries seasonal_info only when the price lookup of
\* its commodity failed; an entry with price data carries none.
C16_SeasonalInfoOnlyOnFailure ==
    JustStored =>
        (StoredEntry.seasonal_info # NoKey =>
            (StoredEntry.error # NoKey /\ StoredEntry.data_points = 0))

\* C16, amended: an entry carries seasonal_info exactly when the seasonal table
\* knows the lowercased commodity name, whether the price lookup failed or
\* succeeded, and it is the table's entry.
C16_SeasonalInfoWheneverKnown ==
    JustStored =>
        IF Lower(StoredCommodity) \in KnownCrops
        THEN StoredEntry.seasonal_info = CropSeasonsTable(Lower(StoredCommodity))
        ELSE StoredEntry.seasonal_info = NoKey

\* an entry with price data and no error that carries seasonal_info
C16_Witness ==
    /\ JustStored
    /\ StoredEntry.error = NoKey
    /\ StoredEntry.data_points >= 1
    /\ StoredEntry.latest_prices # EmptyDict
    /\ StoredEntry.seasonal_info # NoKey

\* C17: the scrape_commodity calls follow the candidate order: the markets of
\* the resolved district in the resolver's order come first, entries of the
\* alternate table of the resolved state are tried only after every in-district
\* market and only when none of those returned a record, and they are tried in
\* table order.
C17_CandidateOrder ==
    calls # <<>> =>
        LET inDistrict == InDistrictCandidates
            table == get_alternate_markets(ResolvedLocation.state)
            n == Len(inDistrict)
        IN /\ Resolved
           /\ \A k \in 1..Len(calls) : k <= n => calls[k] = inDistrict[k]
           /\ Len(calls) > n => (firstData.call = 0 \/ firstData.call > n)
           /\ \A k \in (n + 1)..Len(calls) : \E i \in 1..Len(table) : table[i] = calls[k]
           /\ \A k1, k2 \in (n + 1)..Len(calls) :
                  k1 < k2 => \E i1, i2 \in 1..Len(table) :
                                 i1 < i2 /\ table[i1] = calls[k1] /\ table[i2] = calls[k2]

\* two in-district markets and then entries of the alternate table were tried,
\* the table's entry for the resolved district's own market being passed over
C17_Witness ==
    /\ pc = "return"
    /\ Len(markets) = 2
    /\ Len(calls) >= 4
    /\ firstData.call = Len(calls)
    /\ AlreadyTried(get_alternate_markets(state)[1], calls[1].district, markets)

\* C19: on a dataset that is an array, find_nearest_location yields the state
\* and district of the row at minimal distance among the rows that have a
\* latitude and a longitude, the earliest of the rows at that distance, and the
\* default location only when no row has both.
C19_NearestOfAllWithCoordinates ==
    (pc = "step2" /\ districtsFile.kind = "list") =>
        LET rows == districtsFile.rows
            Has(i) == rows[i].latitude # NoCoordinate /\ rows[i].longitude # NoCoordinate
            Dist(i) == haversine_distance(<<lat, lon>>, <<rows[i].latitude, rows[i].longitude>>)
        IN IF \E i \in 1..Len(rows) : Has(i)
           THEN \E i \in 1..Len(rows) :
                   /\ Has(i)
                   /\ \A j \in 1..Len(rows) : Has(j) => Dist(i) <= Dist(j)
                   /\ \A j \in 1..(i - 1) : Has(j) => Dist(i) < Dist(j)
                   /\ state = GetOr(rows[i].state, "Punjab")
                   /\ district = GetOr(rows[i].district, "Ludhiana")
           ELSE state = "Punjab" /\ district = "Ludhiana"

\* the coordinate list of market m in the geocoded data ([] when it has none)
GeocodedCoords(m) ==
    IF \E i \in 1..Len(geocoded_markets) : geocoded_markets[i].market = m
    THEN geocoded_markets[CHOOSE i \in 1..Len(geocoded_markets) :
                              geocoded_markets[i].market = m].coords
    ELSE <<>>

\* C11: the markets find_markets_by_coordinates yields for the district it
\* resolved are in order of increasing distance from the query point, a market
\* without coordinates coming after every market that has them.
C11_CandidatesByDistance ==
    (/\ found_markets.done
     /\ found_markets.raised = ""
     /\ geocoded_markets # <<>>) =>
        LET ms == found_markets.markets
            Has(m) == Len(GeocodedCoords(m)) = 2
            Dist(m) == calculate_distance(<<lat, lon>>, GeocodedCoords(m))
        IN \A i, j \in 1..Len(ms) :
               (i < j /\ Has(ms[j])) => (Has(ms[i]) /\ Dist(ms[i]) <= Dist(ms[j]))

\* the geocoded markets that have coordinates
WithCoordinates == SelectSeq(geocoded_markets, LAMBDA e : Len(e.coords) = 2)

\* C18: a market stored with an empty coordinate list does not make the
\* nearest-location search fail, and when the search resolves its district the
\* market is among the markets listed.
C18_MarketWithoutCoordinatesSkipped ==
    (/\ found_markets.done
     /\ \E i \in 1..Len(geocoded_markets) : geocoded_markets[i].coords = <<>>) =>
        /\ found_markets.raised = ""
        /\ LET nearest == get_nearest_location_from_database(WithCoordinates, lat, lon) IN
           \A i \in 1..Len(geocoded_markets) :
               (/\ geocoded_markets[i].coords = <<>>
                /\ geocoded_markets[i].state = nearest.state
                /\ geocoded_markets[i].district = nearest.district) =>
                   \E k \in 1..Len(found_markets.markets) :
                       found_markets.markets[k] = geocoded_markets[i].market

\* the records get_latest_prices selects from in the direct call
Filtered == FilteredData(price_data, commodity_variety)

\* the date of the record parses
ValidDated(rec) == SortKey(rec) # -1

\* a price cell that is missing or blank
NoPrice(cell) == cell \in {Absent, ""}

\* C12: with a variety given, get_latest_prices returns the most recent record
\* of exactly that variety (a date that does not parse counting as the oldest),
\* and an empty result when no record has that variety.
C12_OnlyTheGivenVariety ==
    (latest.done /\ commodity_variety \notin {NoneVal, ""}) =>
        LET same == SelectSeq(price_data, LAMBDA rec : rec.Variety = commodity_variety) IN
        /\ latest.raised = ""
        /\ IF same = <<>>
           THEN latest.value = EmptyDict
           ELSE \E i \in 1..Len(same) :
                   /\ \A j \in 1..Len(same) : SortKey(same[j]) <= SortKey(same[i])
                   /\ latest.value = FormattedResult(same[i]).value

\* C13: whenever at least one of the records has a date that parses, the record
\* get_latest_prices returns is a record with the latest of the dates that parse,
\* wherever the record with the unparseable date stands in the input.
C13_UnparseableDateSortsLast ==
    (/\ latest.done
     /\ latest.raised = ""
     /\ \E i \in 1..Len(Filtered) : ValidDated(Filtered[i])) =>
        \E i \in 1..Len(Filtered) :
            /\ ValidDated(Filtered[i])
            /\ \A j \in 1..Len(Filtered) : SortKey(Filtered[j]) <= SortKey(Filtered[i])
            /\ latest.value = FormattedResult(Filtered[i]).value

\* C14: a price cell of the selected record that is missing or blank does not
\* make get_latest_prices fail and is returned as 0.
C14_MissingOrBlankPriceIsZero ==
    (latest.done /\ Filtered # <<>>) =>
        LET rec == LatestRecord(Filtered) IN
        (NoPrice(rec.Min_Price) \/ NoPrice(rec.Max_Price) \/ NoPrice(rec.Modal_Price)) =>
            /\ latest.raised = ""
            /\ NoPrice(rec.Min_Price) => latest.value.min_price = 0
            /\ NoPrice(rec.Max_Price) => latest.value.max_price = 0
            /\ NoPrice(rec.Modal_Price) => latest.value.modal_price = 0

\* C20: when all dates of the (filtered) records parse, get_latest_prices
\* returns the record with the latest date, and of several records with that
\* date the one that comes first in the input.
C20_LatestDateFirstInInput ==
    (/\ latest.done
     /\ Filtered # <<>>
     /\ \A i \in 1..Len(Filtered) : ValidDated(Filtered[i])) =>
        /\ latest.raised = ""
        /\ \E i \in 1..Len(Filtered) :
              /\ \A j \in 1..Len(Filtered) : SortKey(Filtered[j]) <= SortKey(Filtered[i])
              /\ \A j \in 1..(i - 1) : SortKey(Filtered[j]) < SortKey(Filtered[i])
              /\ latest.value = FormattedResult(Filtered[i]).value

\* what get_commodity_price(la, lo, c) returns when it runs alone and its
\* scrape_commodity calls cs behave as they did: fd is the first of them that
\* returned records
ResultAlone(la, lo, c, cs, fd) ==
    LET loc == find_nearest_location(districtsFile, la, lo)
        found == get_markets_in_district(marketsFile, loc.state, loc.district)
        located == [InitialResult EXCEPT !.state = loc.state, !.district = loc.district]
        prices == get_latest_prices(fd.records, NoneVal)
    IN IF loc.raised # ""
       THEN [InitialResult EXCEPT !.error = ExceptionError(loc.raised)]
       ELSE IF found.raised # ""
       THEN [located EXCEPT !.error = ExceptionError(found.raised)]
       ELSE IF fd.call = 0
       THEN [located EXCEPT !.error = NoDataError(c, loc.state)]
       ELSE [state |-> loc.state,
             district |-> cs[fd.call].district,
             market |-> cs[fd.call].market,
             latest_prices |-> prices.value,
             data_points |-> Len(fd.records),
             error |-> IF prices.raised # "" THEN ExceptionError(prices.raised) ELSE NoKey]

Sessions(open) == IF open THEN 1 ELSE 0

C28_PairOfOneEntryOrDefault ==
    pc = "step2" =>
        \/ state = "Punjab" /\ district = "Ludhiana"
        \/ /\ districtsFile.kind = "list"
           /\ \E i \in 1..Len(districtsFile.rows) :
                 /\ districtsFile.rows[i].state = state
                 /\ districtsFile.rows[i].district = district

\* C29: within one get_commodity_price call no (district, market) pair is
\* passed to scrape_commodity twice.
C29_EachPairAtMostOnce ==
    \A i, j \in 1..Len(calls) : calls[i] = calls[j] => i = j

\* the commodities get_all_commodity_prices looks up
LookedUp == IF requested = <<>> THEN <<"Rice", "Wheat">> ELSE requested

\* C26: get_all_commodity_prices looks the commodities up in list order ('Rice'
\* and 'Wheat' when the list is empty): while it runs it holds the entries of
\* exactly the commodities before the one being looked up, also when one of
\* them is an error entry, and it returns the entries of exactly the
\* commodities of the list.
C26_OneEntryPerCommodityInOrder ==
    /\ apc \in {"loop", "done"} => commodities = LookedUp
    /\ apc = "loop" =>
           /\ ci \in 1..(Len(commodities) + 1)
           /\ DOMAIN allResult = {commodities[i] : i \in 1..(ci - 1)}
    /\ apc = "done" =>
           DOMAIN allResult = {commodities[i] : i \in 1..Len(commodities)}

\* the call has returned the entries of 'Rice' and 'Wheat' for an empty list,
\* the first an error entry and the second with price data
C26_Witness ==
    /\ apc = "done"
    /\ requested = <<>>
    /\ DOMAIN allResult = {"Rice", "Wheat"}
    /\ allResult["Rice"].error # NoKey
    /\ allResult["Wheat"].error = NoKey
    /\ allResult["Wheat"].data_points > 0

\* name is part of the option text, letter case aside
Contains(name, option_text) ==
    IsIn(LowerChars(Chars(name)), LowerChars(Chars(option_text)))

\* x is the option flexible matching is to select from a list for a name
Selects(options, name, x) ==
    LET real == {i \in 1..Len(options) : options[i] # Placeholder}
        containing == {i \in real : Contains(name, options[i])}
    IN IF \E i \in 1..Len(options) : options[i] = name
       THEN x = name
       ELSE IF containing # {}
       THEN \E i \in containing : x = options[i] /\ \A j \in containing : i <= j
       ELSE \E i \in real : x = options[i] /\ \A j \in real : i <= j

\* the list has an option that is not the placeholder
HasRealOption(options) == \E i \in 1..Len(options) : options[i] # Placeholder

StepOrder ==
    <<"mode", "commodity", "state", "district", "market", "dates", "submit", "table", "parse">>

\* the place of a position of scrape_commodity among the steps, 0 for a
\* position that is not a step on the form
StepOf(p) ==
    IF \E k \in 1..Len(StepOrder) : StepOrder[k] = p
    THEN CHOOSE k \in 1..Len(StepOrder) : StepOrder[k] = p
    ELSE 0

\* the step k, one of the six that enter something, has entered it
Entered(k) ==
    CASE k = 1 -> form.mode # NoneVal
      [] k = 2 -> form.commodity # NoneVal
      [] k = 3 -> form.state # NoneVal
      [] k = 4 -> form.district # NoneVal
      [] k = 5 -> form.market # NoneVal
      [] k = 6 -> form.dates # NoDates

\* C23: scrape_commodity works the form in the order mode, commodity, state,
\* district, market, date range, submit, wait for the table, parse: a step is
\* at turn only when all steps before it are done and none after it, the
\* district is selected only on a populated district list and the market only
\* on a populated market list, and while a failure is being raised no step is
\* at turn.
C23_StepsInOrder ==
    /\ [](/\ \A k \in 1..5 : Entered(k + 1) => Entered(k)
          /\ \A k \in 1..6 :
                /\ (StepOf(spc) > 0 /\ k < StepOf(spc)) => Entered(k)
                /\ (StepOf(spc) > 0 /\ k >= StepOf(spc)) => ~Entered(k)
          /\ form.table # NoneVal => (Entered(6) /\ StepOf(spc) \in {0, 9})
          /\ StepOf(spc) \in 1..8 => form.table = NoneVal
          /\ Entered(4) => Len(site.districts) > 1
          /\ Entered(5) => Len(MarketOptions(form.district)) > 1
          /\ pending # "" => StepOf(spc) = 0)
    /\ [][/\ (StepOf(spc) > 0 /\ StepOf(spc') > 0) =>
                 (spc' = spc \/ StepOf(spc') = StepOf(spc) + 1)
          /\ (StepOf(spc) = 0 /\ StepOf(spc') > 0) => (spc = "get" /\ spc' = "mode")
          /\ (pending = "" /\ pending' # "") =>
                 /\ StepOf(spc') = 0
                 /\ \A f \in {"mode", "commodity", "state", "district", "market", "dates"} :
                        form'[f] = form[f]]_vars

\* the district list of the site never populated: the call is raising
\* ValueError with mode, commodity and state entered and nothing after them
C23_Witness ==
    /\ site.districts = <<Placeholder>>
    /\ spc = "raised"
    /\ pending = "ValueError"
    /\ Entered(3)
    /\ ~Entered(4)
    /\ form.table = NoneVal

\* the running or last scrape_commodity call failed in its Go-button loop: the
\* dates are entered, no table was waited for and an exception is pending
FailedAtSubmit == pending # "" /\ Entered(6) /\ form.table = NoneVal

HandedNoRecords == spc = "raised" \/ (spc = "returned" /\ sret = <<>>)

\* C24: scrape_commodity returns only when it found a table, also when the
\* table has no data row, and raises RuntimeError when it found none;
\* get_commodity_price treats the empty list and the exception alike: it keeps
\* its result, holds no market data and goes on to the next candidate of the
\* loop it is in.
C24_EmptyAndRaisedAlike ==
    /\ [](/\ spc = "returned" => (pending = "" /\ form.table = "found")
          /\ form.table = "none" => pending = "RuntimeError")
    /\ [][/\ (pc = "district_scrape" /\ pc' # pc /\ HandedNoRecords) =>
                 /\ pc' = "district_loop"
                 /\ mi' = mi + 1
                 /\ result' = result
                 /\ ~HasData(market_data')
          /\ (pc = "alternate_scrape" /\ pc' # pc /\ HandedNoRecords) =>
                 /\ pc' = "alternate_loop"
                 /\ ai' = ai + 1
                 /\ result' = result
                 /\ ~HasData(market_data')]_vars

\* a call raised, the call for the next candidate returned an empty list, and
\* the engine is going on to the candidate after it
C24_Witness ==
    /\ pc \in {"district_loop", "alternate_loop"}
    /\ Len(calls) >= 2
    /\ lastRaised = Len(calls) - 1
    /\ lastOutcome = "empty"
    /\ ~HasData(market_data)

\* C30: a result that carries price data and no error names as district and market the
\* options that were selected on the remote form for the call that returned
\* the data.
C30_ResultNamesSelectedOptions ==
    (pc = "return" /\ result.error = NoKey /\ result.data_points > 0) =>
        /\ firstData.call # 0
        /\ result.district = firstData.selected.district
        /\ result.market = firstData.selected.market

\* the number of the month of an abbreviated month name
MonthNumber(b) == CHOOSE m \in 1..12 : MonthNames[m] = b

\* the date a text dd-Mon-YYYY stands for is on or before that of another
OnOrBefore(a, b) ==
    \/ a.Y < b.Y
    \/ a.Y = b.Y /\ MonthNumber(a.b) < MonthNumber(b.b)
    \/ a.Y = b.Y /\ MonthNumber(a.b) = MonthNumber(b.b) /\ a.d <= b.d

\* C27: the date range scrape_commodity types when it is given no dates has a
\* from-date on or before its to-date, whatever the current date.
C27_DefaultRangeOrdered ==
    typed # NoDates => OnOrBefore(typed.from, typed.to)

\* C25: for every pair of points haversine_distance returns the distance of
\* the haversine formula with Earth radius 6371.0 km.
C25_HaversineWithRadius6371 ==
    distance.done => distance.metres = HaversineFormula(coords[1], coords[2])

====
